---- MODULE Spec2Model ----
(***************************************************************************)
(* Verification model of the Team Wololo Battlecode 2019 controller:       *)
(*   - the bit codec (encodeBits / decodeBits, src/robot.js),              *)
(*   - the two priority-arbitrated outboxes (radio and castle talk,        *)
(*     src/robot.js),                                                      *)
(*   - the world-knowledge store (src/WorldKnowledge.js),                  *)
(*   - the priority queue (src/PriorityQueue.js), the route search         *)
(*     findPath, the route cache of navigationMove and the radio codec     *)
(*     encodeRadio / decodeRadio (src/robot.js).                           *)
(* Every component has its own specification over the shared variables:    *)
(*   SpecMsg   the outboxes,                                               *)
(*   SpecBits  the bit codec,                                              *)
(*   SpecWK    the world knowledge under the direct calls of its methods,  *)
(*   SpecWKP   the world knowledge of a robot in play: the perception of   *)
(*             every turn and the castle talk a castle hears,              *)
(*   SpecPQ    the calls on a priority queue,                              *)
(*   SpecFind  findPath, stepped through its search loop,                  *)
(*   SpecNav   the turns of a robot that calls navigationMove,             *)
(*   SpecRadio the radio codec on the messages of the team,                *)
(*   SpecHeard the radio codec on any signal heard,                        *)
(*   SpecTalk  the castle talk codec on any byte heard,                    *)
(*   SpecTurn  the turns of a robot, turn() from its entry to its return,  *)
(*   SpecWKD   the world knowledge under the calls that name one robot,    *)
(*   SpecMap   findPath in mapping mode,                                   *)
(*   SpecCtl   the routines of the role controllers that order by radio,   *)
(*   SpecGrid  the calls on the strategy grids (src/Strategy.js),          *)
(*   SpecPos   a robot reporting its position by castle talk and a castle  *)
(*             hearing it,                                                 *)
(*   SpecMil   a military unit holding next to a robot that signals,       *)
(*   SpecNeg   the turns of a castle negotiating the leadership,           *)
(*   SpecOrder the attack order of a castle heard by a military unit.      *)
(* JavaScript null / undefined of an optional value is the empty tuple     *)
(* Null, a present value v is <<v>>; optional non-negative numbers of a    *)
(* record (x, y, posUpdateTurn, damage) use Undefined.                     *)
(***************************************************************************)
EXTENDS Integers, Sequences, FiniteSets, TLC

VARIABLES
    \* ---- outboxes (MyRobot fields) ----
    _util_rd_prio,      \* pending radio priority, Null or <<p>>
    _util_rd_msg,       \* pending radio parts, Null or <<array>>
    _util_rd_radiusSq,  \* radius of the pending radio message, Null or <<r>>
    _util_ct_prio,      \* pending castle talk priority, Null or <<p>>
    _util_ct_msg,       \* pending castle talk parts, Null or <<array>>
    signalled,          \* calls of this.signal() made by the last operation
    talked,             \* calls of this.castleTalk() made by the last operation
    \* ---- bit codec (arguments and results of the functions) ----
    contents,           \* argument of encodeBits
    pattern,            \* argument of encodeBits / decodeBits
    encoded,            \* outcome of encodeBits(contents, pattern)
    decoded,            \* outcome of decodeBits(encoded, pattern)
    \* ---- world knowledge (WorldKnowledge fields) ----
    _util_known_bots,        \* id -> record or Null
    _util_known_structures,  \* list of structure records with a position
    _util_wk_terminate_cb,   \* registered terminate callback
    _util_wk_initial_cb,     \* registered initial sighting callback
    me,                 \* the observer owning the world knowledge: unit and team
    me_turn,            \* me.turn of the last perception, 0 before the first
    cb_calls,           \* callback invocations made by the last operation
    log,                \* log lines written by the last operation
    \* ---- the last operation ----
    op,                 \* name of the last operation
    ret,                \* its outcome: "true", "false", "void", "throw", "value", "none"
    pre,                \* priority register of the channel before the last outbox operation
    \* ---- priority queue (PriorityQueue fields) ----
    _content,           \* the heap array
    front,              \* the element the last dequeue returned, Null before the first
    before,             \* the element the dequeue before that one returned
    undercut,           \* an element smaller than front was enqueued since that dequeue
    \* ---- radio codec (arguments and results of the functions) ----
    radioObj,           \* argument of encodeRadio, Null for a signal heard from a stranger
    radioSignal,        \* outcome of encodeRadio(radioObj), or the signal heard
    radioDecoded,       \* outcome of decodeRadio(radioSignal)
    \* ---- route search (arguments and locals of findPath) ----
    map,                \* this.map: its width w and height h
    tvmap,              \* the occupancy map of the search: the passable cells
    targets,            \* the goal cells, a list
    mode,               \* NAV.ECONOMIC or NAV.FASTEST
    start,              \* the start cell
    mover,              \* const unit of findPath, the mover type: flags.unit || this.me.unit
    planner,            \* this.me.unit of the robot that runs the search
    mappingMode,        \* const mappingMode of findPath: !!flags.map
    passableMap,        \* this.getPassableMap(): the cells of passable terrain
    frontier,           \* the heap array of the frontier
    closedSet,          \* the cells closed
    cameFrom,           \* cell -> Null or the cell it was reached from
    gScore,             \* cell -> accumulated cost, Infinity if none
    pc,                 \* position of the call: "idle", "call", "loop", "return"
    path,               \* the value returned: Null (no route) or <<route>>
    closes,             \* how often closedSet[y][x] = true was executed
    \* ---- navigation (MyRobot fields, and what the game gives the robot) ----
    _util_path,         \* the cached route, Null or <<route>>: its head is where the robot should stand
    _util_path_targets, \* the goal list the route was searched for, Null for undefined
    _util_path_mode,    \* the mode it was searched in, Null for undefined
    _util_frozen,       \* the previous turn of the robot did not complete
    me_xy,              \* <<this.me.x, this.me.y>>
    me_time,            \* this.me.time, the clock budget in ms
    fuel,               \* this.fuel
    searched,           \* the last navigationMove called findPath
    navMove,            \* the move it returned, Null for null
    pathBefore,         \* _util_path as the last navigationMove found it
    navCalls,           \* calls of navigationMove made so far
    \* ---- castle talk codec (argument and result of decryptCastleTalk) ----
    castle_talk,        \* r.castle_talk of a robot heard, Null if none
    talkDecoded,        \* outcome of decryptCastleTalk(castle_talk)
    \* ---- the turn (MyRobot fields, and what turn() did last) ----
    _util_last_ok_turn, \* the last turn that ran to its end, Null for undefined
    _wl_alert_last_turn, \* the turn of the last alert enqueued, Null for undefined
    turnAction,         \* the action the last turn() returned, Null for none
    raised,             \* an error left the last turn()
    steps,              \* the steps the last turn() executed, in their order
    \* ---- the routines that order by radio (MyRobot fields) ----
    ctl,                \* the turns the routines record, Null for undefined, and _military_state
    setReturned,        \* what radioSetEventMessage returned to the last routine, Null if not called
    \* ---- the strategy grids (Strategy fields, arguments and results) ----
    _mapSize,           \* Strategy._mapSize
    gridArgs,           \* the position <<x, y>> given to the last operation
    gridCell,           \* what toGrid returned for it, Null before any call
    gridTouched,        \* the index pairs <<row, column>> the last operation used on the grids
    \* ---- a robot reporting its position by castle talk, and a castle hearing it ----
    map_length,         \* this.map.length, the same for both
    sender,             \* the reporting robot: unit, turn, pos, castle talk outbox, alert turn
    sender_talk,        \* r.castle_talk of the reporting robot as the castle sees it
    talkTurn,           \* whose turn is next: "sender" or "castle"
    robotPositionUpdates, \* robotPositionUpdates[id] of the castle, Null if absent
    robotGrids,         \* robotGrids[id] of the castle, Null if null or absent
    heardPos,           \* the last position <<r_x, r_y>> the castle put together, Null if none
    sentOf,             \* which message and part sender_talk is: serial, part, pos; Null if none
    gridOf,             \* the serial of the message robotGrids was taken from
    heardOf,            \* the serials and part that heardPos was put together from
    \* ---- a military unit and the robot next to it ----
    mil,                \* the fields of the unit: _military_state, _military_targets, ...
    mil_turn,           \* this.me.turn of the unit
    milSender,          \* the robot next to the unit: team, unit, seen or not
    milHeard,           \* the signal of that robot in the last turn
    milOutcome,         \* what the last turn returned and whether it raised, Null before
    milTwins,           \* the outcomes of the last turn under each other signal of the robot
    \* ---- a castle negotiating the leadership ----
    _wl_castle_state,   \* Null before onBirth, then <<a value of CASTLE_STATE>>
    castles_known,      \* this._castles_known of the negotiating castle, FALSE for undefined
    castle_turn,        \* this.me.turn of the castle, 0 before its first turn
    negCastles,         \* the castles of the team the world knowledge holds from turn 3 on
    RUSH_MAX_CASTLES,   \* this._strats.RUSH_MAX_CASTLES
    negFirstSeen,       \* getVisibleRobots().length in turn 1, Null before
    negRefused,         \* Null if the last turn did not call castleFindBestExpansion, else
                        \* <<whether it returned for being in negotiation>>
    negReached,         \* whether the last turn reached turnCastle()
    \* ---- an attack order of a castle and a military unit hearing it ----
    orOrder,            \* the targets of the order in the order of transmission, <<>> before
    orHeld,             \* _military_targets of the unit when the order was given
    orPos,              \* the tile the unit stands on
    orAir,              \* the signal of the castle the unit sees in its turn
    orReceived,         \* the parts of the order the unit has handled
    orDropped,          \* the targets the unit has removed from its list since the order
    orAfter             \* the fields of the unit as militaryHandleRadio left them in its
                        \* last turn, Null before

msgVars  == <<_util_rd_prio, _util_rd_msg, _util_rd_radiusSq, _util_ct_prio,
              _util_ct_msg, signalled, talked>>
bitVars  == <<contents, pattern, encoded, decoded>>
wkVars   == <<_util_known_bots, _util_known_structures, _util_wk_terminate_cb,
              _util_wk_initial_cb, me, me_turn, cb_calls, log>>
opVars   == <<op, ret, pre>>
pqVars   == <<_content, front, before, undercut>>
rdVars   == <<radioObj, radioSignal, radioDecoded>>
fpArgs   == <<map, tvmap, targets, mode, start, mover, planner, mappingMode, passableMap>>
fpLocals == <<frontier, closedSet, cameFrom, gScore, pc, path, closes>>
fpVars   == <<fpArgs, fpLocals>>
navVars  == <<_util_path, _util_path_targets, _util_path_mode, _util_frozen, me_xy,
              me_time, fuel, searched, navMove, pathBefore, navCalls>>
ctVars   == <<castle_talk, talkDecoded>>
tnVars   == <<_util_last_ok_turn, _wl_alert_last_turn, turnAction, raised, steps>>
cvVars   == <<ctl, setReturned>>
sgVars   == <<_mapSize, gridArgs, gridCell, gridTouched>>
ptVars   == <<map_length, sender, sender_talk, talkTurn, robotPositionUpdates, robotGrids,
              heardPos, sentOf, gridOf, heardOf>>
mlVars   == <<mil, mil_turn, milSender, milHeard, milOutcome, milTwins>>
ngVars   == <<_wl_castle_state, castles_known, castle_turn, negCastles, RUSH_MAX_CASTLES,
              negFirstSeen, negRefused, negReached>>
orVars   == <<orOrder, orHeld, orPos, orAir, orReceived, orDropped, orAfter>>
tailVars == <<ngVars, orVars>>
lateVars == <<sgVars, ptVars, mlVars, tailVars>>
restVars == <<ctVars, tnVars, cvVars, lateVars>>
extVars  == <<pqVars, rdVars, fpVars, navVars, restVars>>
vars     == <<msgVars, bitVars, wkVars, opVars, extVars>>

Null == <<>>
Some(v) == <<v>>
Undefined == -1

\* ---------------------------------------------------------------------
\* Bounds of the model
\* ---------------------------------------------------------------------
MaxParts == 2     \* longest multi-part message put into an outbox
MaxFields == 3    \* longest contents / pattern list given to the codec
MaxId == 2        \* robot ids are 1..MaxId
MaxCalled == 1    \* the direct calls on a world knowledge name ids 1..MaxCalled
MaxTurn == 2      \* turn numbers are 1..MaxTurn
MaxStructs == 2   \* cap of the length of the structure list
MaxQueue == 4     \* most elements held by a priority queue
CorridorLength == 5   \* cells of the corridor world (one row)
RoomSide == 3     \* side of the room world
BoardSide == 10   \* side of the open board
MaxWalls == 2     \* most impassable cells of the corridor
MaxRoomWalls == 1 \* most impassable cells of the room
MaxTargets == 2   \* most goal cells of a call
MaxNavWalls == 1  \* most cells taken by other robots in a turn of a navigating robot
MaxCalls == 3     \* calls of navigationMove in the life of a robot
LastTurn == 3     \* turns of a robot whose turn() is followed
MaxDamage == 20   \* most damage recorded on one robot
MaxUnits == 1     \* most tiles taken by robots when a score map is built
MaxCtlTurn == 5   \* turns of a robot whose ordering routines are followed
MaxMapSize == 9   \* largest side of a map handed to a strategy
Overshoot == 2    \* how far outside the map a position handed to a strategy lies
MaxMapLength == 64  \* largest side of the map of a robot that reports its position
LastTalkTurn == 5   \* turns of a robot that reports its position
LastCastleTurn == 9 \* turns of a castle from its birth
MaxSeen == 3        \* robots the host reports to a castle in its first turn
LastMilTurn == 3    \* turns of a military unit that hears a robot next to it
OrderSide == 8      \* side of the map of the attack order
HoldSide == 4       \* side of the map the military unit idles on

\* ---------------------------------------------------------------------
\* Outboxes: radioSetEventMessage, radioSendMessage,
\*           castleTalkSetEventMessage, castleTalkSendMessage
\* ---------------------------------------------------------------------
RADIO_PRIO == [HOLD |-> 0, SCOUT |-> 10, TARGET |-> 20, CHARGE |-> 25, REPULSE |-> 30]
CASTLETALK_PRIO == [POSITION |-> 0, ALERT |-> 70, CASTLE_DESTROYED |-> 91,
                    DBG_CLOCK_REQEUST |-> 99, IDENT |-> 100]

RadioPrios == {RADIO_PRIO[k] : k \in DOMAIN RADIO_PRIO}
CastleTalkPrios == {CASTLETALK_PRIO[k] : k \in DOMAIN CASTLETALK_PRIO}

\* radii the callers pass
RadiusVals == {2, 64}

\* a msg argument: a bare encoded number, or an array of 1..MaxParts encoded
\* numbers (the parts of one message are told apart by their values)
BareVals == {9}
PartArrays == {[i \in 1..n |-> 4 + i] : n \in 1..MaxParts}
MsgArgs == {[isArray |-> FALSE, val |-> v] : v \in BareVals}
           \cup {[isArray |-> TRUE, val |-> a] : a \in PartArrays}

\* if (!Array.isArray(msg)) msg = [msg];
promote(msg) == IF msg.isArray THEN msg.val ELSE <<msg.val>>

\* slice1 without the removal of the first part
sliceNone(arr) == arr

\* arr.slice(1)
slice1(arr) == [i \in 1..(Len(arr) - 1) |-> arr[i + 1]]

\* loses with the comparison > in place of >=: an equal priority replaces
losesToGreater(prio, priority) == prio # Null /\ prio[1] > priority

\* The arbitration test of both set operations:
\*   if (this._util_xx_prio != null && this._util_xx_prio >= priority) return false;
loses(prio, priority) == prio # Null /\ prio[1] >= priority

radioSetEventMessage(priority, msg, radiusSq) ==
    /\ op' = "radioSetEventMessage"
    /\ pre' = _util_rd_prio
    /\ signalled' = <<>>
    /\ talked' = <<>>
    /\ IF loses(_util_rd_prio, priority)
       THEN /\ ret' = "false"
            /\ UNCHANGED <<_util_rd_prio, _util_rd_msg, _util_rd_radiusSq>>
       ELSE /\ _util_rd_prio' = Some(priority)
            /\ _util_rd_msg' = Some(promote(msg))
            /\ _util_rd_radiusSq' = Some(radiusSq)
            /\ ret' = "true"
    /\ UNCHANGED <<_util_ct_prio, _util_ct_msg, bitVars, wkVars, extVars>>

radioSendMessage ==
    /\ op' = "radioSendMessage"
    /\ pre' = _util_rd_prio
    /\ ret' = "void"
    /\ talked' = <<>>
    /\ IF _util_rd_msg # Null /\ Len(_util_rd_msg[1]) > 0
       THEN /\ signalled' = <<<<_util_rd_msg[1][1], _util_rd_radiusSq>>>>
            /\ _util_rd_msg' = Some(slice1(_util_rd_msg[1]))
            /\ _util_rd_prio' = IF Len(slice1(_util_rd_msg[1])) = 0
                                THEN Null ELSE _util_rd_prio
       ELSE /\ signalled' = <<>>
            /\ UNCHANGED <<_util_rd_prio, _util_rd_msg>>
    /\ UNCHANGED <<_util_rd_radiusSq, _util_ct_prio, _util_ct_msg, bitVars, wkVars, extVars>>

castleTalkSetEventMessage(priority, msg) ==
    /\ op' = "castleTalkSetEventMessage"
    /\ pre' = _util_ct_prio
    /\ signalled' = <<>>
    /\ talked' = <<>>
    /\ IF loses(_util_ct_prio, priority)
       THEN /\ ret' = "false"
            /\ UNCHANGED <<_util_ct_prio, _util_ct_msg>>
       ELSE /\ _util_ct_prio' = Some(priority)
            /\ _util_ct_msg' = Some(promote(msg))
            /\ ret' = "true"
    /\ UNCHANGED <<_util_rd_prio, _util_rd_msg, _util_rd_radiusSq, bitVars, wkVars, extVars>>

castleTalkSendMessage ==
    /\ op' = "castleTalkSendMessage"
    /\ pre' = _util_ct_prio
    /\ ret' = "void"
    /\ signalled' = <<>>
    /\ IF _util_ct_msg # Null /\ Len(_util_ct_msg[1]) > 0
       THEN /\ talked' = <<_util_ct_msg[1][1]>>
            /\ _util_ct_msg' = Some(slice1(_util_ct_msg[1]))
            /\ _util_ct_prio' = IF Len(slice1(_util_ct_msg[1])) = 0
                                THEN Null ELSE _util_ct_prio
       ELSE /\ talked' = <<>>
            /\ UNCHANGED <<_util_ct_prio, _util_ct_msg>>
    /\ UNCHANGED <<_util_rd_prio, _util_rd_msg, _util_rd_radiusSq, bitVars, wkVars, extVars>>

RadioSet == \E p \in RadioPrios, m \in MsgArgs, r \in RadiusVals :
                radioSetEventMessage(p, m, r)
RadioSend == radioSendMessage
CastleTalkSet == \E p \in CastleTalkPrios, m \in MsgArgs :
                    castleTalkSetEventMessage(p, m)
CastleTalkSend == castleTalkSendMessage

\* The fields of a fresh MyRobot are not set by a constructor: undefined.
InitMsg ==
    /\ _util_rd_prio = Null
    /\ _util_rd_msg = Null
    /\ _util_rd_radiusSq = Null
    /\ _util_ct_prio = Null
    /\ _util_ct_msg = Null
    /\ signalled = <<>>
    /\ talked = <<>>

InitOp ==
    /\ op = "none"
    /\ ret = "none"
    /\ pre = Null

\* ---------------------------------------------------------------------
\* Bit codec: encodeBits, decodeBits.  JavaScript numbers; the operators
\* <<, >>, & and | convert their operands to 32 bit two's complement
\* integers and take the shift count modulo 32.
\* ---------------------------------------------------------------------
MaxInt32 == 2^30 + (2^30 - 1)
MinInt32 == (-MaxInt32) - 1

\* bit i (0 = least significant, 31 = sign) of the int32 n
Bit(n, i) ==
    IF i = 31 THEN (IF n < 0 THEN 1 ELSE 0)
    ELSE LET m == IF n >= 0 THEN n ELSE (n + MaxInt32) + 1
         IN (m \div (2^i)) % 2

RECURSIVE LowSum(_, _)
LowSum(b, i) == IF i < 0 THEN 0 ELSE b[i] * (2^i) + LowSum(b, i - 1)

\* the int32 with the bits b[0..31]
FromBits(b) == IF b[31] = 1 THEN (LowSum(b, 30) - MaxInt32) - 1 ELSE LowSum(b, 30)

\* a << n
ShiftLeft(a, n) ==
    LET s == n % 32
    IN FromBits([i \in 0..31 |-> IF i >= s THEN Bit(a, i - s) ELSE 0])

\* a >> n (sign propagating)
ShiftRight(a, n) ==
    LET s == n % 32
    IN FromBits([i \in 0..31 |-> IF i + s <= 31 THEN Bit(a, i + s) ELSE Bit(a, 31)])

\* a & b
BitAnd(a, b) == FromBits([i \in 0..31 |-> Bit(a, i) * Bit(b, i)])

\* a | b
BitOr(a, b) == FromBits([i \in 0..31 |-> IF Bit(a, i) + Bit(b, i) > 0 THEN 1 ELSE 0])

\* ToInt32((1 << n) - 1), the filter pattern of decodeBits
filterPattern(n) ==
    LET one == ShiftLeft(1, n)
    IN IF one = MinInt32 THEN MaxInt32 ELSE one - 1

\* A JavaScript number given to the codec: the integer n, or n + 1/2.
Num(n) == [frac |-> FALSE, n |-> n]
Half(n) == [frac |-> TRUE, n |-> n]

\* Number.isSafeInteger(c)
isSafeInteger(c) == ~c.frac

\* encodeBits(contents, pattern): [thrown |-> TRUE] or the packed integer
RECURSIVE encodeLoop(_, _, _, _)
encodeLoop(cs, pat, i, msg) ==
    IF i > Len(pat) THEN [thrown |-> FALSE, val |-> msg]
    ELSE LET c == cs[i]
             p == pat[i]
         IN IF ~isSafeInteger(c) THEN [thrown |-> TRUE, val |-> 0]
            ELSE IF c.n < 0 THEN [thrown |-> TRUE, val |-> 0]
            ELSE IF c.n >= ShiftLeft(1, p) THEN [thrown |-> TRUE, val |-> 0]
            ELSE encodeLoop(cs, pat, i + 1, BitOr(ShiftLeft(msg, p), c.n))

encodeBits(cs, pat) ==
    IF Len(cs) # Len(pat) THEN [thrown |-> TRUE, val |-> 0]
    ELSE encodeLoop(cs, pat, 1, 0)

\* decodeBits(msg, pattern): the list of segments, last pattern entry at the LSB
RECURSIVE decodeLoop(_, _, _, _)
decodeLoop(msg, pat, i, result) ==
    IF i < 1 THEN result
    ELSE decodeLoop(ShiftRight(msg, pat[i]), pat, i - 1,
                    [result EXCEPT ![i] = BitAnd(msg, filterPattern(pat[i]))])

decodeBits(msg, pat) == decodeLoop(msg, pat, Len(pat), [i \in 1..Len(pat) |-> 0])

\* Inputs of the codec
Widths == {1, 3, 16}
Patterns == UNION {[1..n -> Widths] : n \in 0..MaxFields}

\* values tried for a field of width w: around 0, around 2^w, the top bit alone
FieldVals(w) == {Num(-1), Num(0), Num(1), Num(2^(w - 1)), Num(2^w - 1), Num(2^w), Half(0)}

ContentsFor(pat) ==
    {cs \in [1..Len(pat) -> UNION {FieldVals(w) : w \in Widths}] :
        \A i \in 1..Len(pat) : cs[i] \in FieldVals(pat[i])}
    \cup {[i \in 1..n |-> Num(0)] : n \in {Len(pat) + 1} \cup ({Len(pat) - 1} \cap Nat)}

InitBits ==
    /\ pattern \in Patterns
    /\ contents \in ContentsFor(pattern)
    /\ encoded = Null
    /\ decoded = Null

Encode ==
    /\ encoded = Null
    /\ encoded' = Some(encodeBits(contents, pattern))
    /\ op' = "encodeBits"
    /\ ret' = IF encodeBits(contents, pattern).thrown THEN "throw" ELSE "value"
    /\ UNCHANGED <<contents, pattern, decoded, pre, msgVars, wkVars, extVars>>

Decode ==
    /\ encoded # Null
    /\ ~encoded[1].thrown
    /\ decoded = Null
    /\ decoded' = Some(decodeBits(encoded[1].val, pattern))
    /\ op' = "decodeBits"
    /\ ret' = "value"
    /\ UNCHANGED <<contents, pattern, encoded, pre, msgVars, wkVars, extVars>>

\* the codec is not in use
IdleBits ==
    /\ contents = <<>>
    /\ pattern = <<>>
    /\ encoded = Null
    /\ decoded = Null

\* ---------------------------------------------------------------------
\* World knowledge: constructor
\* ---------------------------------------------------------------------
Ids == 1..MaxId

\* a world knowledge that is not in use
IdleWK ==
    /\ _util_known_bots = [id \in Ids |-> Null]
    /\ _util_known_structures = <<>>
    /\ _util_wk_terminate_cb = "noop"
    /\ _util_wk_initial_cb = "noop"
    /\ me = [unit |-> 0, team |-> 0]
    /\ me_turn = 0
    /\ cb_calls = <<>>
    /\ log = <<>>

\* ---------------------------------------------------------------------
\* World knowledge: operations.  Ids are the robots other than the
\* observer, Tiles the tiles other than the observer's own; the observer's
\* own entry (always reported, always visible) is left out.
\* An operation maps a world knowledge w to the world knowledge after it:
\*   w.bots     _util_known_bots
\*   w.structs  _util_known_structures; the list holds the record objects
\*              themselves, of which the code reads only id, x and y, all
\*              three fixed from the push on; live tells whether the entry
\*              is the object stored in _util_known_bots under its id
\*   w.calls    callback invocations, w.log log lines, w.thrown an Error
\*              was thrown (the operation was aborted there)
\* ---------------------------------------------------------------------
CASTLE == 0
CHURCH == 1
PILGRIM == 2
Units == {CASTLE, CHURCH, PILGRIM}
Teams == {0, 1}
Xs == 0..1
Ys == 0..1
Tiles == {<<0, 1>>, <<1, 0>>}
Callbacks == {"pilgrimOnUnitTerminated", "militaryOnUnitTerminated"}

newRecord(id, team, unit) ==
    [id |-> id, team |-> team, unit |-> unit, x |-> Undefined, y |-> Undefined,
     posUpdateTurn |-> Undefined, damage |-> Undefined]

\* the entries of id no longer are the object stored under id
unlive(structs, id) ==
    [k \in 1..Len(structs) |->
        IF structs[k].id = id THEN [structs[k] EXCEPT !.live = FALSE] ELSE structs[k]]

\* initialSighting without the return of an untrusted conflicting sighting
initialSightingTrusting(w, id, team, unit, trueVision) ==
    LET known == w.bots[id]
        teamErr == known # Null /\ known[1].team # team
        unitErr == known # Null /\ ~teamErr /\ known[1].unit # unit
        error == teamErr \/ unitErr
        w1 == [w EXCEPT !.log = IF teamErr THEN Append(@, "change team")
                                ELSE IF unitErr THEN Append(@, "change unit")
                                ELSE @]
        bot == [id |-> id, team |-> team, unit |-> unit, x |-> Undefined,
                y |-> Undefined, posUpdateTurn |-> Undefined, damage |-> Undefined]
    IN IF known # Null /\ ~error THEN [w1 EXCEPT !.exit = "known"]
       ELSE [w1 EXCEPT !.log = IF error THEN Append(@, "true vision") ELSE @,
                       !.exit = "created",
                       !.bots[id] = Some(bot),
                       !.structs = unlive(@, id),
                       !.calls = Append(@, <<"initial", w.icb, bot>>)]

initialSighting(w, id, team, unit, trueVision) ==
    LET known == w.bots[id]
        teamErr == known # Null /\ known[1].team # team
        unitErr == known # Null /\ ~teamErr /\ known[1].unit # unit
        error == teamErr \/ unitErr
        w1 == [w EXCEPT !.log = IF teamErr THEN Append(@, "change team")
                                ELSE IF unitErr THEN Append(@, "change unit")
                                ELSE @]
        bot == newRecord(id, team, unit)
    IN IF known # Null /\ ~error THEN [w1 EXCEPT !.exit = "known"]
       ELSE IF error /\ ~trueVision THEN [w1 EXCEPT !.exit = "rejected"]
       ELSE [w1 EXCEPT !.log = IF error THEN Append(@, "true vision") ELSE @,
                       !.exit = "created",
                       !.bots[id] = Some(bot),
                       !.structs = unlive(@, id),
                       !.calls = Append(@, <<"initial", w.icb, bot>>)]

\* index of the first entry of id, Len + 1 if there is none
find(structs, id) ==
    IF \E k \in 1..Len(structs) : structs[k].id = id
    THEN CHOOSE k \in 1..Len(structs) :
            /\ structs[k].id = id
            /\ \A j \in 1..(k - 1) : structs[j].id # id
    ELSE Len(structs) + 1

\* structs[i] = structs[structs.length - 1]; structs.pop();
swapAndPop(structs, i) ==
    [k \in 1..(Len(structs) - 1) |-> IF k = i THEN structs[Len(structs)] ELSE structs[k]]

markTerminated(w, id) ==
    LET bot == w.bots[id]
        i == find(w.structs, id)
    IN IF bot = Null THEN [w EXCEPT !.thrown = TRUE]
       ELSE [w EXCEPT !.structs = unlive(IF bot[1].unit < 2 /\ i # Len(w.structs) + 1
                                         THEN swapAndPop(@, i) ELSE @, id),
                      !.exit = "void",
                      !.bots[id] = Null,
                      !.calls = Append(@, <<"terminate", w.tcb, bot[1]>>)]

\* updatePosition with the comparison > in place of >= on the turns
updatePositionSameTurn(w, id, x, y, turn) ==
    LET bot == w.bots[id]
    IN IF bot = Null THEN [w EXCEPT !.exit = "unknown"]
       ELSE IF bot[1].posUpdateTurn # Undefined /\ bot[1].posUpdateTurn > turn
            THEN [w EXCEPT !.exit = "outdated"]
       ELSE IF bot[1].unit < 2 /\ bot[1].x # Undefined /\ (bot[1].x # x \/ bot[1].y # y)
            THEN [w EXCEPT !.log = @ \o <<"static structure", "cannot recover">>,
                           !.exit = "static"]
       ELSE [w EXCEPT !.exit = "updated",
                      !.structs = IF bot[1].unit < 2 /\ bot[1].x = Undefined
                                  THEN Append(@, [id |-> id, x |-> x, y |-> y, live |-> TRUE])
                                  ELSE @,
                      !.bots[id] = Some([bot[1] EXCEPT !.x = x, !.y = y,
                                                       !.posUpdateTurn = turn])]

\* updatePosition without the return of a structure that would move
updatePositionMoving(w, id, x, y, turn) ==
    LET bot == w.bots[id]
    IN IF bot = Null THEN [w EXCEPT !.exit = "unknown"]
       ELSE IF bot[1].posUpdateTurn # Undefined /\ bot[1].posUpdateTurn >= turn
            THEN [w EXCEPT !.exit = "outdated"]
       ELSE [w EXCEPT !.exit = "updated",
                      !.structs = IF bot[1].unit < 2 /\ bot[1].x = Undefined
                                  THEN Append(@, [id |-> id, x |-> x, y |-> y, live |-> TRUE])
                                  ELSE @,
                      !.bots[id] = Some([bot[1] EXCEPT !.x = x, !.y = y,
                                                       !.posUpdateTurn = turn])]

updatePosition(w, id, x, y, turn) ==
    LET bot == w.bots[id]
    IN IF bot = Null THEN [w EXCEPT !.exit = "unknown"]
       ELSE IF bot[1].posUpdateTurn # Undefined /\ bot[1].posUpdateTurn >= turn
            THEN [w EXCEPT !.exit = "outdated"]
       ELSE IF bot[1].unit < 2 /\ bot[1].x # Undefined /\ (bot[1].x # x \/ bot[1].y # y)
            THEN [w EXCEPT !.log = @ \o <<"static structure", "cannot recover">>,
                           !.exit = "static"]
       ELSE [w EXCEPT !.exit = "updated",
                      !.structs = IF bot[1].unit < 2 /\ bot[1].x = Undefined
                                  THEN Append(@, [id |-> id, x |-> x, y |-> y, live |-> TRUE])
                                  ELSE @,
                      !.bots[id] = Some([bot[1] EXCEPT !.x = x, !.y = y,
                                                       !.posUpdateTurn = turn])]

applyDamage(w, id, damage) ==
    LET bot == w.bots[id]
    IN IF bot = Null THEN [w EXCEPT !.thrown = TRUE]
       ELSE [w EXCEPT !.bots[id] =
                Some([bot[1] EXCEPT !.damage = IF @ # Undefined THEN @ + damage ELSE damage])]

updateBot(w, r, turn, trueVision) ==
    LET w1 == initialSighting(w, r.id, r.team, r.unit, trueVision)
    IN updatePosition(w1, r.id, r.x, r.y, turn)

\* first loop of updateFromPerception, from bots[i] on
RECURSIVE sightLoop(_, _, _)
sightLoop(w, owner, i) ==
    IF i > Len(owner.bots) THEN w
    ELSE LET r == owner.bots[i]
         IN sightLoop(IF r.visible THEN updateBot(w, r, owner.me.turn, TRUE)
                      ELSE IF r.radioing
                           THEN updatePosition(w, r.id, r.x, r.y, owner.me.turn)
                           ELSE w,
                      owner, i + 1)

\* second loop: the scan of the known structures, from entry i on
RECURSIVE structLoop(_, _, _)
structLoop(w, owner, i) ==
    IF w.thrown \/ i > Len(w.structs) THEN w
    ELSE LET s == w.structs[i]
             idAtTile == owner.botMap[s.y][s.x]
         IN IF idAtTile >= 0 /\ idAtTile # s.id
            THEN structLoop(markTerminated(w, s.id), owner, i)
            ELSE structLoop(w, owner, i + 1)

\* Object.values(this._util_known_bots): the records by ascending id
values(bots) ==
    LET F[k \in 0..MaxId] ==
            IF k = 0 THEN <<>>
            ELSE IF bots[k] = Null THEN F[k - 1] ELSE Append(F[k - 1], bots[k][1])
    IN F[MaxId]

\* third loop: the roll call of a castle, over the list known
RECURSIVE rollCall(_, _, _, _)
rollCall(w, owner, known, i) ==
    IF w.thrown \/ i > Len(known) THEN w
    ELSE IF known[i].team = owner.me.team
            /\ ~(\E j \in 1..Len(owner.bots) : owner.bots[j].id = known[i].id)
         THEN rollCall(markTerminated(w, known[i].id), owner, known, i + 1)
         ELSE rollCall(w, owner, known, i + 1)

updateFromPerception(w, owner) ==
    LET w1 == sightLoop(w, owner, 1)
        w2 == structLoop(w1, owner, 1)
        w3 == IF w2.thrown \/ owner.me.unit # CASTLE THEN w2
              ELSE rollCall(w2, owner, values(w2.bots), 1)
    IN [w3 EXCEPT !.exit = "void"]

\* ---------------------------------------------------------------------
\* World knowledge: the calls made on it
\* ---------------------------------------------------------------------
\* the constructor; the observer is a castle or not.  Its team is 0: the
\* code only compares teams for equality, so the other case is the same
\* with the team names exchanged
InitWK ==
    /\ _util_known_bots = [id \in Ids |-> Null]
    /\ _util_known_structures = <<>>
    /\ me \in [unit : {CASTLE, PILGRIM}, team : {0}]
    /\ me_turn = 0
    /\ cb_calls = <<>>
    /\ log = <<>>

\* the world knowledge before an operation, nothing called or logged yet
this ==
    [bots |-> _util_known_bots, structs |-> _util_known_structures,
     tcb |-> _util_wk_terminate_cb, icb |-> _util_wk_initial_cb,
     calls |-> <<>>, log |-> <<>>, thrown |-> FALSE, exit |-> "void"]

\* the operation named name took this to w (the structure list is capped)
becomes(w, name) ==
    /\ Len(w.structs) <= MaxStructs
    /\ _util_known_bots' = w.bots
    /\ _util_known_structures' = w.structs
    /\ cb_calls' = w.calls
    /\ log' = w.log
    /\ op' = name
    /\ ret' = IF w.thrown THEN "throw" ELSE w.exit
    /\ UNCHANGED <<_util_wk_terminate_cb, _util_wk_initial_cb, me, pre, msgVars, bitVars, extVars>>

\* the ids a caller of the class names
Called == 1..MaxCalled

InitialSighting ==
    \E id \in Called, team \in Teams, unit \in Units, trueVision \in BOOLEAN :
        /\ becomes(initialSighting(this, id, team, unit, trueVision), "initialSighting")
        /\ UNCHANGED me_turn

\* a position report of a turn that is not in the future
UpdatePosition ==
    \E id \in Called, t \in Tiles, n \in 0..me_turn :
        /\ becomes(updatePosition(this, id, t[1], t[2], n), "updatePosition")
        /\ UNCHANGED me_turn

MarkTerminated ==
    \E id \in Called :
        /\ becomes(markTerminated(this, id), "markTerminated")
        /\ UNCHANGED me_turn

SetTerminateCallback ==
    \E cb \in Callbacks :
        /\ _util_wk_terminate_cb' = cb
        /\ op' = "setTerminateCallback"
        /\ ret' = "void"
        /\ cb_calls' = <<>>
        /\ log' = <<>>
        /\ UNCHANGED <<_util_known_bots, _util_known_structures, _util_wk_initial_cb,
                       me, me_turn, pre, msgVars, bitVars, extVars>>

\* onBirth(): the callbacks a robot of this unit registers on its first turn
onBirth ==
    /\ _util_wk_initial_cb = IF me.unit = CASTLE THEN "castleOnUnitSighted" ELSE "noop"
    /\ _util_wk_terminate_cb = IF me.unit = CASTLE THEN "castleOnUnitTerminated"
                                ELSE "pilgrimOnUnitTerminated"

\* castleUpdateFromCastleTalk(), one message of the loop: robot id of the
\* own team identifies itself as a unit
CastleTalkIdent ==
    /\ me.unit = CASTLE
    /\ me_turn >= 1
    /\ \E id \in Ids, unit \in Units :
          becomes(initialSighting(this, id, me.team, unit, FALSE),
                  "castleUpdateFromCastleTalk")
    /\ UNCHANGED me_turn

\* castleUpdateFromCastleTalk(), one message of the loop: the second half
\* of the position of robot id; _castles_known is a flag of the castle
CastleTalkPosition ==
    /\ me.unit = CASTLE
    /\ me_turn >= 1
    /\ \E id \in Ids, t \in Tiles, _castles_known \in BOOLEAN :
          LET w1 == IF this.bots[id] = Null
                    THEN initialSighting(this, id, me.team, CASTLE, FALSE)
                    ELSE this
          IN IF this.bots[id] = Null /\ _castles_known
             THEN becomes([this EXCEPT !.log = <<"Missing IDENT">>],
                          "castleUpdateFromCastleTalk")
             ELSE becomes(updatePosition(w1, id, t[1], t[2], me_turn - 1),
                          "castleUpdateFromCastleTalk")
    /\ UNCHANGED me_turn

\* What the host reports of one robot in a turn: nothing, its id only (castle
\* talk, to a castle), its place (it signals out of sight), or all of it.
Reports ==
    {[kind |-> "absent", team |-> Undefined, unit |-> Undefined, x |-> Undefined, y |-> Undefined]}
    \cup {[kind |-> "talk", team |-> Undefined, unit |-> Undefined, x |-> Undefined, y |-> Undefined]}
    \cup {[kind |-> "radio", team |-> Undefined, unit |-> Undefined, x |-> t[1], y |-> t[2]]
            : t \in Tiles}
    \cup {[kind |-> "visible", team |-> tu[1], unit |-> tu[2], x |-> t[1], y |-> t[2]]
            : tu \in Teams \X Units, t \in Tiles}

\* no two robots stand on one tile; only a castle hears castle talk
Consistent(f) ==
    /\ \A i, j \in Ids :
          (i # j /\ f[i].x # Undefined /\ f[j].x # Undefined) =>
              <<f[i].x, f[i].y>> # <<f[j].x, f[j].y>>
    /\ \A i \in Ids : f[i].kind = "talk" => me.unit = CASTLE

\* getVisibleRobots(): the reported robots, by ascending id
getVisibleRobots(f) ==
    LET F[k \in 0..MaxId] ==
            IF k = 0 THEN <<>>
            ELSE IF f[k].kind = "absent" THEN F[k - 1]
            ELSE Append(F[k - 1],
                        [id |-> k, team |-> f[k].team, unit |-> f[k].unit,
                         x |-> f[k].x, y |-> f[k].y,
                         visible |-> f[k].kind = "visible",
                         radioing |-> f[k].kind = "radio"])
    IN F[MaxId]

\* getVisibleRobotMap(): the id of the visible robot on a tile, 0 on a
\* visible empty tile, -1 out of sight; seen are the free tiles in sight
getVisibleRobotMap(f, seen) ==
    [y \in Ys |-> [x \in Xs |->
        IF \E i \in Ids : f[i].kind = "visible" /\ f[i].x = x /\ f[i].y = y
        THEN CHOOSE i \in Ids : f[i].kind = "visible" /\ f[i].x = x /\ f[i].y = y
        ELSE IF <<x, y>> \in seen /\ ~(\E i \in Ids : f[i].x = x /\ f[i].y = y)
             THEN 0 ELSE -1]]

\* the robot handed to updateFromPerception in the turn that begins, the
\* host reporting f and the free tiles seen being in sight
owner(f, seen) ==
    [me |-> [unit |-> me.unit, team |-> me.team, turn |-> me_turn + 1],
     bots |-> getVisibleRobots(f),
     botMap |-> getVisibleRobotMap(f, seen)]

\* a turn of the observer begins: the perception of what the host reports,
\* the reports f taken from F and the free tiles in sight from S
Perceive(F, S) ==
    /\ me_turn < MaxTurn
    /\ me_turn' = me_turn + 1
    /\ \E f \in F, seen \in S :
          /\ Consistent(f)
          /\ \A t \in seen : ~(\E i \in Ids : f[i].x = t[1] /\ f[i].y = t[2])
          /\ becomes(updateFromPerception(this, owner(f, seen)), "updateFromPerception")

UpdateFromPerception == Perceive([Ids -> Reports], SUBSET Tiles)

\* a turn in which no other robot is reported and no other tile is in sight
UpdateFromEmptyPerception ==
    Perceive({[i \in Ids |-> CHOOSE r \in Reports : r.kind = "absent"]}, {{}})

\* ---------------------------------------------------------------------
\* Priority queue (src/PriorityQueue.js).  The array index i of the code is
\* the index i + 1 here: the parent of j is j \div 2, its children are 2j
\* and 2j + 1.
\* ---------------------------------------------------------------------
\* the comparator the program constructs its queues with: x.cost - y.cost
comparator(x, y) == x.cost - y.cost

\* c with the entries at i and j exchanged
swap(c, i, j) == [c EXCEPT ![i] = c[j], ![j] = c[i]]

\* the loop of enqueue, the inserted item standing at childIndex
RECURSIVE siftUp(_, _)
siftUp(c, childIndex) ==
    IF childIndex <= 1 THEN c
    ELSE LET parentIndex == childIndex \div 2
         IN IF comparator(c[childIndex], c[parentIndex]) >= 0 THEN c
            ELSE siftUp(swap(c, childIndex, parentIndex), parentIndex)

\* enqueue without the loop that moves the item up
enqueueAtEnd(c, item) == Append(c, item)

\* enqueue(item): the heap array afterwards
enqueue(c, item) == siftUp(Append(c, item), Len(c) + 1)

\* the loop of dequeue that never looks at the right child
RECURSIVE siftDownLeft(_, _)
siftDownLeft(c, parentIndex) ==
    LET childIndex == parentIndex * 2
    IN IF childIndex > Len(c) THEN c
       ELSE IF comparator(c[parentIndex], c[childIndex]) <= 0 THEN c
       ELSE siftDownLeft(swap(c, parentIndex, childIndex), childIndex)

\* the loop of dequeue, from parentIndex down
RECURSIVE siftDown(_, _)
siftDown(c, parentIndex) ==
    LET left == parentIndex * 2
        rightChildIndex == left + 1
        childIndex == IF rightChildIndex <= Len(c)
                         /\ comparator(c[rightChildIndex], c[left]) < 0
                      THEN rightChildIndex ELSE left
    IN IF left > Len(c) THEN c
       ELSE IF comparator(c[parentIndex], c[childIndex]) <= 0 THEN c
       ELSE siftDown(swap(c, parentIndex, childIndex), childIndex)

\* dequeue(): the element returned and the heap array afterwards; on an
\* empty queue it throws
dequeue(c) ==
    IF Len(c) = 0 THEN [thrown |-> TRUE, front |-> Null, content |-> c]
    ELSE [thrown |-> FALSE,
          front |-> Some(c[1]),
          content |-> siftDown(SubSeq([c EXCEPT ![1] = c[Len(c)]], 1, Len(c) - 1), 1)]

\* the elements put into a queue: two of every cost, told apart by elem
PQCosts == {1, 2, 3}
PQItems == [cost : PQCosts, elem : {"a", "b"}]

\* a queue that is not in use, and a queue after its constructor
IdlePQ ==
    /\ _content = <<>>
    /\ front = Null
    /\ before = Null
    /\ undercut = FALSE

Enqueue ==
    /\ Len(_content) < MaxQueue
    /\ \E item \in PQItems :
          /\ _content' = enqueue(_content, item)
          /\ undercut' = (undercut \/ (front # Null /\ comparator(item, front[1]) < 0))
    /\ op' = "enqueue"
    /\ ret' = "void"
    /\ UNCHANGED <<front, before, pre, msgVars, bitVars, wkVars, rdVars, fpVars, navVars, restVars>>

Dequeue ==
    /\ LET d == dequeue(_content)
       IN /\ _content' = d.content
          /\ front' = IF d.thrown THEN front ELSE d.front
          /\ before' = IF d.thrown THEN before ELSE front
          /\ undercut' = IF d.thrown THEN undercut ELSE FALSE
          /\ ret' = IF d.thrown THEN "throw" ELSE "value"
    /\ op' = "dequeue"
    /\ UNCHANGED <<pre, msgVars, bitVars, wkVars, rdVars, fpVars, navVars, restVars>>

\* ---------------------------------------------------------------------
\* Radio codec: encodeRadio, decodeRadio.  A message is a record with the
\* fields of its kind; a 16 bit signal is header (3 bits) and content (13).
\* ---------------------------------------------------------------------
SignalBits == 16
Signals == 0..(2^SignalBits - 1)

\* field values tried: the ends and the middle of a 6 bit coordinate, every
\* count of a scout report, the ends and the middle of its direction
Coord == {0, 1, 31, 32, 63}
ScoutDirection == {0, 7, 8, 15}
RadioMessages ==
    {[type |-> "hold"], [type |-> "repulse"]}
    \cup [type : {"charge"}, crusader : BOOLEAN, archer : BOOLEAN, mage : BOOLEAN,
          direction : 0..7]
    \cup [type : {"target"}, clearExisting : BOOLEAN, x : Coord, y : Coord]
    \cup [type : {"mine"}, x : Coord, y : Coord, construct : BOOLEAN]
    \cup [type : {"scout"}, update : BOOLEAN, churches : 0..3, crusaders : 0..3,
          prophets : 0..3, preachers : 0..3, direction : ScoutDirection]
    \cup [type : {"targetOnConstruct"}, x : Coord, y : Coord, alsoMirror : BOOLEAN]

\* b ? 1 : 0
flag(b) == IF b THEN 1 ELSE 0

\* the content list of encodeBits for plain integers
nums(ns) == [i \in 1..Len(ns) |-> Num(ns[i])]

\* encodeRadio(obj): [thrown |-> TRUE] or the packed signal
encodeRadio(obj) ==
    IF obj.type = "hold" THEN encodeBits(nums(<<1, 0>>), <<3, 13>>)
    ELSE IF obj.type = "repulse" THEN encodeBits(nums(<<1, 1>>), <<3, 13>>)
    ELSE IF obj.type = "charge" THEN
        encodeBits(nums(<<1, 1, 0, flag(obj.crusader), flag(obj.archer), flag(obj.mage),
                          obj.direction>>), <<3, 3, 4, 1, 1, 1, 3>>)
    ELSE IF obj.type = "target" THEN
        LET clearExisting == IF obj.clearExisting = FALSE THEN 0 ELSE 1
        IN encodeBits(nums(<<0, clearExisting, obj.x, obj.y>>), <<3, 1, 6, 6>>)
    ELSE IF obj.type = "mine" THEN
        encodeBits(nums(<<2, flag(obj.construct), obj.x, obj.y>>), <<3, 1, 6, 6>>)
    ELSE IF obj.type = "scout" THEN
        LET update == IF obj.update = FALSE THEN 0 ELSE 1
        IN encodeBits(nums(<<3, update, obj.churches, obj.crusaders, obj.prophets,
                             obj.preachers, obj.direction>>), <<3, 1, 2, 2, 2, 2, 4>>)
    ELSE IF obj.type = "targetOnConstruct" THEN
        encodeBits(nums(<<4, flag(obj.alsoMirror), obj.x, obj.y>>), <<3, 1, 6, 6>>)
    ELSE [thrown |-> TRUE, val |-> 0]

\* the end of decodeRadio that every unrecognised signal falls through to:
\* this.log(...) in a function of the module that is called without a
\* receiver; this is undefined there and the property access raises a
\* TypeError before the empty object is returned
failedToDecode == [thrown |-> TRUE, val |-> [type |-> "TypeError"]]

\* decodeRadio(message): the message object, or thrown
decodeRadio(message) ==
    LET base == decodeBits(message, <<3, 13>>)
        baseHeader == base[1]
        baseContent == base[2]
    IN IF baseHeader = 0 THEN
           LET f == decodeBits(baseContent, <<1, 6, 6>>)
           IN [thrown |-> FALSE,
               val |-> [type |-> "target", clearExisting |-> f[1] # 0, x |-> f[2], y |-> f[3]]]
       ELSE IF baseHeader = 1 THEN
           LET ev == decodeBits(baseContent, <<3, 10>>)
               eventType == ev[1]
               eventPayload == ev[2]
           IN IF eventType = 0 THEN
                  IF eventPayload = 0 THEN [thrown |-> FALSE, val |-> [type |-> "hold"]]
                  ELSE IF eventPayload = 1 THEN [thrown |-> FALSE, val |-> [type |-> "repulse"]]
                  ELSE failedToDecode
              ELSE IF eventType = 1 THEN
                  LET f == decodeBits(eventPayload, <<4, 1, 1, 1, 3>>)
                  IN [thrown |-> FALSE,
                      val |-> [type |-> "charge", crusader |-> f[2] # 0, archer |-> f[3] # 0,
                               mage |-> f[4] # 0, direction |-> f[5]]]
              ELSE failedToDecode
       ELSE IF baseHeader = 2 THEN
           LET f == decodeBits(baseContent, <<1, 6, 6>>)
           IN [thrown |-> FALSE,
               val |-> [type |-> "mine", x |-> f[2], y |-> f[3], construct |-> f[1] # 0]]
       ELSE IF baseHeader = 4 THEN
           LET f == decodeBits(baseContent, <<1, 6, 6>>)
           IN [thrown |-> FALSE,
               val |-> [type |-> "targetOnConstruct", x |-> f[2], y |-> f[3],
                        alsoMirror |-> f[1] # 0]]
       ELSE failedToDecode

\* the radio codec is not in use
IdleRadio ==
    /\ radioObj = Null
    /\ radioSignal = Null
    /\ radioDecoded = Null

\* a message of the robot's own team about to be encoded
InitRadio ==
    /\ radioObj \in {Some(m) : m \in RadioMessages}
    /\ radioSignal = Null
    /\ radioDecoded = Null

\* the signal of any robot in sight: r.signal is any 16 bit integer
InitHeard ==
    /\ radioObj = Null
    /\ radioSignal \in {Some([thrown |-> FALSE, val |-> n]) : n \in Signals}
    /\ radioDecoded = Null

EncodeRadio ==
    /\ radioObj # Null
    /\ radioSignal = Null
    /\ radioSignal' = Some(encodeRadio(radioObj[1]))
    /\ op' = "encodeRadio"
    /\ ret' = IF encodeRadio(radioObj[1]).thrown THEN "throw" ELSE "value"
    /\ UNCHANGED <<radioObj, radioDecoded, pre, msgVars, bitVars, wkVars, pqVars, fpVars, navVars, restVars>>

\* decodeRadio(robot.signal), as getIdleMove and the unit turns call it
DecodeRadio ==
    /\ radioSignal # Null
    /\ ~radioSignal[1].thrown
    /\ radioDecoded = Null
    /\ radioDecoded' = Some(decodeRadio(radioSignal[1].val))
    /\ op' = "decodeRadio"
    /\ ret' = IF decodeRadio(radioSignal[1].val).thrown THEN "throw" ELSE "value"
    /\ UNCHANGED <<radioObj, radioSignal, pre, msgVars, bitVars, wkVars, pqVars, fpVars, navVars, restVars>>

\* ---------------------------------------------------------------------
\* Castle talk codec: decryptCastleTalk.  A castle talk value is 8 bits,
\* header (2 bits) and body (6).
\* ---------------------------------------------------------------------
TalkBits == 8
TalkValues == 0..(2^TalkBits - 1)

\* decryptCastleTalk(message): the message object; no statement of it raises
decryptCastleTalk(message) ==
    LET parts == decodeBits(message, <<2, 6>>)
        header == parts[1]
        body == parts[2]
    IN IF header = 2 THEN
           [thrown |-> FALSE, val |-> [type |-> "position", content |-> decodeBits(body, <<3, 3>>)]]
       ELSE IF header = 1 THEN
           [thrown |-> FALSE, val |-> [type |-> "important", content |-> Null]]
       ELSE IF 1 <= body /\ body <= 6 THEN
           [thrown |-> FALSE, val |-> [type |-> "ident", unit |-> body - 1]]
       ELSE IF body = 7 THEN
           [thrown |-> FALSE, val |-> [type |-> "dbgClock"]]
       ELSE IF 40 <= body /\ body <= 47 THEN
           [thrown |-> FALSE, val |-> [type |-> "alert", direction |-> body - 40]]
       ELSE [thrown |-> FALSE, val |-> [type |-> "event", content |-> Null]]

\* the castle talk codec is not in use
IdleTalk ==
    /\ castle_talk = Null
    /\ talkDecoded = Null

\* the castle talk of any robot: r.castle_talk is any 8 bit integer
InitTalk ==
    /\ castle_talk \in {Some(n) : n \in TalkValues}
    /\ talkDecoded = Null

\* decryptCastleTalk(r.castle_talk), as the castle turn calls it
DecryptCastleTalk ==
    /\ castle_talk # Null
    /\ talkDecoded = Null
    /\ talkDecoded' = Some(decryptCastleTalk(castle_talk[1]))
    /\ op' = "decryptCastleTalk"
    /\ ret' = "value"
    /\ UNCHANGED <<castle_talk, pre, msgVars, bitVars, wkVars, pqVars, rdVars, fpVars, navVars,
                   tnVars, cvVars, lateVars>>

\* ---------------------------------------------------------------------
\* Route search: findPath in goal mode (flags.map absent).  A cell is
\* <<x, y>>; an occupancy map is the set of its passable cells; Infinity
\* is a number above every cost of the worlds searched.
\* ---------------------------------------------------------------------
NAV == [ECONOMIC |-> 0, FASTEST |-> 1]

CRUSADER == 3
PROPHET == 4
PREACHER == 5

\* SPECS.UNITS of the game: the speed (largest squared length of a move)
\* and the fuel per unit of squared length of every unit type
UNITS ==
    [u \in {CASTLE, CHURCH, PILGRIM, CRUSADER, PROPHET, PREACHER} |->
        IF u \in {CASTLE, CHURCH} THEN [SPEED |-> 0, FUEL_PER_MOVE |-> 0]
        ELSE IF u = PILGRIM THEN [SPEED |-> 4, FUEL_PER_MOVE |-> 1]
        ELSE IF u = CRUSADER THEN [SPEED |-> 9, FUEL_PER_MOVE |-> 1]
        ELSE IF u = PROPHET THEN [SPEED |-> 4, FUEL_PER_MOVE |-> 2]
        ELSE [SPEED |-> 4, FUEL_PER_MOVE |-> 3]]

Infinity == 1000000

Cells(m) == (0..(m.w - 1)) \X (0..(m.h - 1))

radiusSq(d) == d[1] * d[1] + d[2] * d[2]

\* Math.ceil(Math.sqrt(n))
ceilSqrt(n) == CHOOSE r \in 0..n : r * r >= n /\ \A q \in 0..(r - 1) : q * q < n

\* variant: moves up to squared length 16 whatever the speed
listDeltaTilesFar(minRadiusSq, maxRadiusSq) ==
    LET tiles == {d \in (-4..4) \X (-4..4) : 1 <= radiusSq(d) /\ radiusSq(d) <= 16}
        earlier(a, b) ==
            \/ radiusSq(a) < radiusSq(b)
            \/ radiusSq(a) = radiusSq(b)
               /\ (a[1] < b[1] \/ (a[1] = b[1] /\ a[2] < b[2]))
        rank(d) == Cardinality({e \in tiles : earlier(e, d)})
    IN [i \in 1..Cardinality(tiles) |-> CHOOSE d \in tiles : rank(d) = i - 1]

\* listDeltaTiles(minRadiusSq, maxRadiusSq): the deltas generated by the two
\* loops (dx outside, dy inside), then sorted by squared length; the sort
\* keeps the generation order of deltas of equal length
listDeltaTiles(minRadiusSq, maxRadiusSq) ==
    LET maxRadius == ceilSqrt(maxRadiusSq)
        tiles == {d \in (-maxRadius..maxRadius) \X (-maxRadius..maxRadius) :
                     minRadiusSq <= radiusSq(d) /\ radiusSq(d) <= maxRadiusSq}
        earlier(a, b) ==
            \/ radiusSq(a) < radiusSq(b)
            \/ radiusSq(a) = radiusSq(b)
               /\ (a[1] < b[1] \/ (a[1] = b[1] /\ a[2] < b[2]))
        rank(d) == Cardinality({e \in tiles : earlier(e, d)})
    IN [i \in 1..Cardinality(tiles) |-> CHOOSE d \in tiles : rank(d) = i - 1]

\* listPossibleMoves(unit), for every unit type
listPossibleMoves == [u \in DOMAIN UNITS |-> listDeltaTiles(1, UNITS[u].SPEED)]

\* variant: the last column and the last row count as outside the map
truelyPassableInside(x, y, tv, m) ==
    IF x < 0 \/ y < 0 \/ x >= m.w - 1 \/ y >= m.h - 1 THEN FALSE
    ELSE <<x, y>> \in tv

\* truelyPassableAbsolute(x, y, tvmap) on a map of size m
truelyPassableAbsolute(x, y, tv, m) ==
    IF x < 0 \/ y < 0 \/ x >= m.w \/ y >= m.h THEN FALSE
    ELSE <<x, y>> \in tv

abs(n) == IF n < 0 THEN -n ELSE n

\* the heuristic of findPath: Manhattan distance to the closest target
RECURSIVE closest(_, _, _, _)
closest(pos, tg, i, best) ==
    IF i > Len(tg) THEN best
    ELSE LET score == abs(pos[1] - tg[i][1]) + abs(pos[2] - tg[i][2])
         IN closest(pos, tg, i + 1, IF best > score THEN score ELSE best)

\* variant: a heuristic that overestimates, a hundred times the distance
heuristicHundredfold(pos, tg) == 100 * closest(pos, tg, 1, Infinity)

heuristic(pos, tg) == closest(pos, tg, 1, Infinity)

fuelFactor(md) == IF md = NAV.ECONOMIC THEN 10 ELSE 1
timeFactor(md) == IF md = NAV.ECONOMIC THEN 1 ELSE 10

\* const totalActionCost of the search loop; q.planner is this.me.unit
totalActionCost(action, q) ==
    LET fuelCost == UNITS[q.planner].FUEL_PER_MOVE * radiusSq(action)
    IN fuelCost * fuelFactor(q.mode) + 1 * timeFactor(q.mode)

\* the loop over the available actions of one expanded cell: the scores
\* and the frontier after the actions i.. of deltaActions
RECURSIVE expand(_, _, _, _)
expand(i, current, L, q) ==
    LET deltaActions == listPossibleMoves[q.unit]
    IN IF i > Len(deltaActions) THEN L
       ELSE LET action == deltaActions[i]
                newX == current[1] + action[1]
                newY == current[2] + action[2]
                tentativeGScore == L.gScore[current] + totalActionCost(action, q)
            IN IF ~truelyPassableAbsolute(newX, newY, q.tvmap, q.map) THEN expand(i + 1, current, L, q)
               ELSE IF <<newX, newY>> \in L.closedSet THEN expand(i + 1, current, L, q)
               ELSE IF tentativeGScore < L.gScore[<<newX, newY>>] THEN
                   expand(i + 1, current,
                          [L EXCEPT !.gScore[<<newX, newY>>] = tentativeGScore,
                                    !.frontier = enqueue(@,
                                        [cost |-> tentativeGScore
                                                  + (IF q.mapping THEN 0
                                                     ELSE heuristic(<<newX, newY>>, q.targets)),
                                         elem |-> <<newX, newY>>,
                                         came_from |-> Some(current)])],
                          q)
               ELSE expand(i + 1, current, L, q)

\* the route rebuilt from cameFrom, goal first
RECURSIVE trace(_, _)
trace(curr, cf) ==
    IF curr = Null THEN <<>>
    ELSE <<curr[1]>> \o trace(cf[curr[1]], cf)

reverse(s) == [i \in 1..Len(s) |-> s[Len(s) + 1 - i]]

\* a cell is one of the targets
onTarget(c, tg) == \E i \in 1..Len(tg) : c[1] = tg[i][1] /\ c[2] = tg[i][2]

\* variant: a dequeued cell is expanded even if it is closed already
alreadyClosedNever(c, closed) == FALSE

\* the test "ignore if already closed" on a dequeued cell
alreadyClosed(c, closed) == c \in closed

\* variant: the mapping mode drops the targets and keeps the occupancy map
mappedAmongUnits(q) ==
    IF q.mapping THEN [q EXCEPT !.targets = <<>>] ELSE q

\* the arguments as the search uses them: in mapping mode no targets, and
\* the terrain in place of the occupancy map
mapped(q) ==
    IF q.mapping THEN [q EXCEPT !.targets = <<>>, !.tvmap = q.passable] ELSE q

\* findPath before its loop: the fast exit, or the grids and the frontier
\* holding the start.  L is the record of the locals and of the position;
\* q holds the arguments as mapped(q) gives them.
enter(q) ==
    LET hasPassableTarget ==
            \E i \in 1..Len(q.targets) :
                truelyPassableAbsolute(q.targets[i][1], q.targets[i][2], q.tvmap, q.map)
    IN IF ~hasPassableTarget /\ ~q.mapping
       THEN [frontier |-> <<>>, closedSet |-> {}, cameFrom |-> <<>>, gScore |-> <<>>,
             pc |-> "return", path |-> Null, closes |-> 0]
       ELSE [frontier |-> enqueue(<<>>, [cost |-> 0, elem |-> q.start, came_from |-> Null]),
             closedSet |-> {},
             cameFrom |-> [c \in Cells(q.map) |-> Null],
             gScore |-> [c \in Cells(q.map) |-> IF c = q.start THEN 0 ELSE Infinity],
             pc |-> "loop", path |-> Null, closes |-> 0]

\* one iteration of the loop of findPath, the frontier not being empty
iteration(L, q) ==
    LET d == dequeue(L.frontier)
        current == d.front[1]
        rest == [L EXCEPT !.frontier = d.content]
    IN IF alreadyClosed(current.elem, L.closedSet) THEN rest
       ELSE LET closed == [rest EXCEPT !.closedSet = @ \cup {current.elem},
                                       !.cameFrom[current.elem] = current.came_from,
                                       !.closes = @ + 1]
            IN IF ~q.mapping /\ onTarget(current.elem, q.targets)
               THEN [closed EXCEPT !.pc = "return",
                                   !.path = Some(reverse(trace(Some(current.elem), closed.cameFrom)))]
               ELSE expand(1, current.elem, closed, q)

\* the loop of findPath has run out of frontier: the score map is returned
\* in mapping mode, otherwise no result was found
exhausted(L, q) ==
    [L EXCEPT !.pc = "return", !.path = IF q.mapping THEN Some(L.gScore) ELSE Null]

\* findPath(targets, mode, start, flags) from its entry to its return
RECURSIVE loop(_, _)
loop(L, q) ==
    IF L.pc = "return" THEN L
    ELSE IF Len(L.frontier) > 0 THEN loop(iteration(L, q), q)
    ELSE loop(exhausted(L, q), q)

findPath(q) == loop(enter(mapped(q)), mapped(q)).path

\* the arguments and the locals of the running call as records
findArgs ==
    mapped([map |-> map, tvmap |-> tvmap, targets |-> targets, mode |-> mode,
            start |-> start, unit |-> mover, planner |-> planner,
            mapping |-> mappingMode, passable |-> passableMap])
findLocals ==
    [frontier |-> frontier, closedSet |-> closedSet, cameFrom |-> cameFrom,
     gScore |-> gScore, pc |-> pc, path |-> path, closes |-> closes]

\* the locals after a step of findPath, and what the step reports
findStep(L) ==
    /\ frontier' = L.frontier
    /\ closedSet' = L.closedSet
    /\ cameFrom' = L.cameFrom
    /\ gScore' = L.gScore
    /\ pc' = L.pc
    /\ path' = L.path
    /\ closes' = L.closes
    /\ op' = "findPath"
    /\ ret' = IF L.pc # "return" THEN "none" ELSE IF L.path = Null THEN "null" ELSE "value"
    /\ UNCHANGED <<fpArgs, pre, msgVars, bitVars, wkVars, pqVars, rdVars, navVars, restVars>>

\* the worlds searched
Corridor == [w |-> CorridorLength, h |-> 1]
Room == [w |-> RoomSide, h |-> RoomSide]
Board == [w |-> BoardSide, h |-> BoardSide]

\* the occupancy maps of a world with at most n impassable cells
Occupancies(m, n) ==
    {Cells(m) \ B : B \in {S \in SUBSET Cells(m) : Cardinality(S) <= n}}

\* a set of cells as the array a caller passes, in row order
asList(T, m) ==
    LET ahead(a, b) == a[2] * m.w + a[1] < b[2] * m.w + b[1]
    IN [i \in 1..Cardinality(T) |->
           CHOOSE c \in T : Cardinality({e \in T : ahead(e, c)}) = i - 1]

TargetLists(m, n) ==
    {asList(T, m) : T \in {S \in SUBSET Cells(m) : Cardinality(S) \in 1..n}}

\* the small worlds with the number of impassable cells tried in each
SmallWorlds == {[map |-> Corridor, walls |-> MaxWalls], [map |-> Room, walls |-> MaxRoomWalls]}

\* findPath is not in use
IdleFind ==
    /\ map = [w |-> 0, h |-> 0]
    /\ tvmap = {}
    /\ targets = <<>>
    /\ mode = NAV.ECONOMIC
    /\ start = <<0, 0>>
    /\ mover = CASTLE
    /\ planner = CASTLE
    /\ mappingMode = FALSE
    /\ passableMap = {}
    /\ frontier = <<>>
    /\ closedSet = {}
    /\ cameFrom = <<>>
    /\ gScore = <<>>
    /\ pc = "idle"
    /\ path = Null
    /\ closes = 0

\* findPath(targets, mode) as navigationMove calls it: a robot plans for
\* itself from its own tile, which its occupancy map shows as taken, and
\* it stands on none of the targets (navigationMove returns before)
NavigationCall ==
    /\ planner \in {PILGRIM, CRUSADER, PREACHER}
    /\ mover = planner
    /\ mode \in {NAV.ECONOMIC, NAV.FASTEST}
    /\ \E world \in SmallWorlds :
          /\ map = world.map
          /\ start \in Cells(map)
          /\ tvmap \in {o \ {start} : o \in Occupancies(map, world.walls)}
          /\ targets \in TargetLists(map, MaxTargets)
          /\ ~onTarget(start, targets)

\* findPath(mirror, NAV.FASTEST, undefined, {unit: SPECS.PROPHET, tvmap: eroded})
\* as a structure calls it: the route is planned for a prophet on the
\* eroded terrain, to the mirror image of the structure's tile
StructureCall ==
    /\ planner = CASTLE
    /\ mover = PROPHET
    /\ mode = NAV.FASTEST
    /\ \E world \in SmallWorlds :
          /\ map = world.map
          /\ start \in Cells(map)
          /\ tvmap \in Occupancies(map, world.walls)
          /\ targets \in TargetLists(map, 1)
          /\ ~onTarget(start, targets)

\* the calls on the open board: corner to corner, and two goals around the start
BoardCall ==
    /\ planner \in {PILGRIM, CRUSADER}
    /\ mover = planner
    /\ map = Board
    /\ \/ /\ mode \in {NAV.ECONOMIC, NAV.FASTEST}
          /\ start = <<0, 0>>
          /\ targets = <<<<BoardSide - 1, BoardSide - 1>>>>
       \/ /\ mode = NAV.FASTEST
          /\ start = <<2, 2>>
          /\ targets = <<<<5, 5>>, <<1, 1>>>>
    /\ tvmap = Cells(map) \ {start}

\* findPath([], NAV.FASTEST, undefined, {unit: SPECS.PROPHET, map: true})
\* as a structure calls it at its birth, and the same call with a goal
\* list: the terrain holds the structure's tile, and the occupancy map is
\* the terrain without the tiles of the robots in sight
MappingCall ==
    /\ planner \in {CASTLE, CHURCH}
    /\ mover = PROPHET
    /\ mode = NAV.FASTEST
    /\ mappingMode = TRUE
    /\ \E world \in SmallWorlds :
          /\ map = world.map
          /\ start \in Cells(map)
          /\ passableMap \in {o \in Occupancies(map, world.walls) : start \in o}
          /\ tvmap \in {passableMap \ U : U \in {S \in SUBSET passableMap : Cardinality(S) <= MaxUnits}}
          /\ targets \in {<<>>} \cup TargetLists(map, 1)

\* the locals of a call that has not begun
InitLocals ==
    /\ frontier = <<>>
    /\ closedSet = {}
    /\ cameFrom = <<>>
    /\ gScore = <<>>
    /\ pc = "call"
    /\ path = Null
    /\ closes = 0

InitFind ==
    /\ NavigationCall \/ StructureCall \/ BoardCall
    /\ mappingMode = FALSE
    /\ passableMap = tvmap \cup {start}
    /\ frontier = <<>>
    /\ closedSet = {}
    /\ cameFrom = <<>>
    /\ gScore = <<>>
    /\ pc = "call"
    /\ path = Null
    /\ closes = 0

\* lines 4033-4108: the fast exit, or the set-up of the search
Begin ==
    /\ pc = "call"
    /\ findStep(enter(findArgs))

\* lines 4111-4187: one iteration of the search loop
Iterate ==
    /\ pc = "loop"
    /\ Len(frontier) > 0
    /\ findStep(iteration(findLocals, findArgs))

\* line 4193: the frontier is empty
Exhausted ==
    /\ pc = "loop"
    /\ Len(frontier) = 0
    /\ findStep(exhausted(findLocals, findArgs))

\* ---------------------------------------------------------------------
\* Navigation: navigationMove and its route cache.  The cache C is the
\* record of _util_path, _util_path_targets and _util_path_mode; the
\* environment e of a call is what the robot reads of itself and of the
\* game in that turn.
\* ---------------------------------------------------------------------
\* variant: the cached route is never checked against the occupancy
recalculateBlind(C, tg, md, e) ==
    IF C.targets = Null \/ C.targets[1] # tg THEN TRUE
    ELSE IF C.mode # Some(md) THEN TRUE
    ELSE C.path[1][1] # e.pos

\* let recalculate of navigationMove: the four tests of the cache in the
\* order of the code (equalsnd is the equality of the nested arrays)
recalculate(C, tg, md, e) ==
    IF C.targets = Null \/ C.targets[1] # tg THEN TRUE
    ELSE IF C.mode # Some(md) THEN TRUE
    ELSE IF C.path[1][1] # e.pos THEN TRUE
    ELSE ~truelyPassableAbsolute(C.path[1][2][1], C.path[1][2][2], e.tvmap, e.map)

\* variant: the step is returned whatever the fuel
bailNever(fuelCost, f) == FALSE

\* "Bail if out of fuel"
bail(fuelCost, f) == fuelCost > f

\* the end of navigationMove, from "Calculate delta": the route C.path is
\* valid for this turn
step(C, e, sought) ==
    LET dx == C.path[1][2][1] - e.pos[1]
        dy == C.path[1][2][2] - e.pos[2]
        fuelCost == UNITS[e.unit].FUEL_PER_MOVE * (dx * dx + dy * dy)
    IN IF bail(fuelCost, e.fuel)
       THEN [cache |-> C, ret |-> Null, searched |-> sought]
       ELSE [cache |-> [C EXCEPT !.path = Some(Tail(C.path[1]))],
             ret |-> Some(<<dx, dy>>), searched |-> sought]

\* variant: only a frozen turn makes the call fail fast
failFastFrozenOnly(e) == e.frozen

\* "Fail fast if frozen last turn", line 1154
failFast(e) == e.frozen \/ e.time < 40

\* navigationMove(targets, mode): the cache afterwards, the move returned
\* (Null for null) and whether findPath was called
navigationMove(C, tg, md, e) ==
    IF failFast(e) THEN [cache |-> C, ret |-> Null, searched |-> FALSE]
    ELSE IF onTarget(e.pos, tg) THEN [cache |-> C, ret |-> Null, searched |-> FALSE]
    ELSE IF recalculate(C, tg, md, e)
         THEN LET found == findPath([map |-> e.map, tvmap |-> e.tvmap, targets |-> tg,
                                     mode |-> md, start |-> e.pos, unit |-> e.unit,
                                     planner |-> e.unit, mapping |-> FALSE,
                                     passable |-> e.tvmap \cup {e.pos}])
              IN IF found = Null
                 THEN [cache |-> [C EXCEPT !.path = Null, !.targets = Null],
                       ret |-> Null, searched |-> TRUE]
                 ELSE step([path |-> found, targets |-> Some(tg), mode |-> Some(md)], e, TRUE)
    ELSE step(C, e, FALSE)

\* the cache and the environment of the robot as records
cache == [path |-> _util_path, targets |-> _util_path_targets, mode |-> _util_path_mode]
environment ==
    [pos |-> me_xy, fuel |-> fuel, frozen |-> _util_frozen, time |-> me_time,
     tvmap |-> tvmap, map |-> map, unit |-> planner]

\* what the game may show a robot at the start of a turn
Fuels == {0, 4}
Clocks == {[frozen |-> FALSE, time |-> 40], [frozen |-> FALSE, time |-> 39],
           [frozen |-> TRUE, time |-> 40]}
NavTargets == {<<<<0, 0>>>>, <<<<CorridorLength - 1, 0>>>>,
               <<<<0, 0>>, <<CorridorLength - 1, 0>>>>}

\* navigation is not in use
IdleNav ==
    /\ _util_path = Null
    /\ _util_path_targets = Null
    /\ _util_path_mode = Null
    /\ _util_frozen = FALSE
    /\ me_xy = <<0, 0>>
    /\ me_time = 0
    /\ fuel = 0
    /\ searched = FALSE
    /\ navMove = Null
    /\ pathBefore = Null
    /\ navCalls = 0

\* a pilgrim or a crusader in the corridor before its first turn: the cache
\* fields are undefined
InitNav ==
    /\ _util_path = Null
    /\ _util_path_targets = Null
    /\ _util_path_mode = Null
    /\ _util_frozen = FALSE
    /\ me_xy \in Cells(Corridor)
    /\ me_time = 40
    /\ fuel = 0
    /\ searched = FALSE
    /\ navMove = Null
    /\ pathBefore = Null
    /\ navCalls = 0
    /\ map = Corridor
    /\ tvmap = Cells(Corridor) \ {me_xy}
    /\ planner \in {PILGRIM, CRUSADER}
    /\ mover = planner
    /\ targets = <<>>
    /\ mode = NAV.ECONOMIC
    /\ start = <<0, 0>>
    /\ mappingMode = FALSE
    /\ passableMap = Cells(Corridor)
    /\ frontier = <<>>
    /\ closedSet = {}
    /\ cameFrom = <<>>
    /\ gScore = <<>>
    /\ pc = "idle"
    /\ path = Null
    /\ closes = 0

\* the game starts a turn of the robot: the robot stands where it stood or
\* has made the move navigationMove returned; the fuel of the team, its
\* clock and the robots in sight are what they have become
Turn ==
    /\ navCalls < MaxCalls
    /\ me_xy' \in {me_xy} \cup {<<me_xy[1] + m[1], me_xy[2] + m[2]>> : m \in {navMove[i] : i \in DOMAIN navMove}}
    /\ tvmap' \in {o \ {me_xy'} : o \in Occupancies(map, MaxNavWalls)}
    /\ fuel' \in Fuels
    /\ \E clock \in Clocks : _util_frozen' = clock.frozen /\ me_time' = clock.time
    /\ searched' = FALSE
    /\ navMove' = Null
    /\ pathBefore' = Null
    /\ targets' = <<>>
    /\ mode' = NAV.ECONOMIC
    /\ op' = "turn"
    /\ ret' = "void"
    /\ UNCHANGED <<_util_path, _util_path_targets, _util_path_mode, navCalls, map, start, mover,
                   planner, mappingMode, passableMap, fpLocals, pre, msgVars, bitVars, wkVars, pqVars, rdVars, restVars>>

\* navigationMove(targets, mode) in the turn the game has started
NavigationMove ==
    /\ op = "turn"
    /\ \E tg \in NavTargets, md \in {NAV.ECONOMIC, NAV.FASTEST} :
          LET r == navigationMove(cache, tg, md, environment)
          IN /\ _util_path' = r.cache.path
             /\ _util_path_targets' = r.cache.targets
             /\ _util_path_mode' = r.cache.mode
             /\ searched' = r.searched
             /\ navMove' = r.ret
             /\ pathBefore' = _util_path
             /\ targets' = tg
             /\ mode' = md
             /\ ret' = IF r.ret = Null THEN "null" ELSE "value"
    /\ navCalls' = navCalls + 1
    /\ op' = "navigationMove"
    /\ UNCHANGED <<_util_frozen, me_xy, me_time, fuel, map, tvmap, start, mover, planner,
                   mappingMode, passableMap, fpLocals, pre, msgVars, bitVars, wkVars, pqVars, rdVars, restVars>>

\* everything the other components add to the state is at rest
\* ---------------------------------------------------------------------
\* The turn: MyRobot.turn, the orchestrator of one turn of a robot.  The
\* robot stands at (0,0) of the map of the world knowledge section.  The
\* state of a turn in progress is the record R:
\*   R.box      the outboxes, and what was handed to signal() / castleTalk()
\*   R.wk       the world knowledge
\*   R.last_ok, R.alert_last, R.frozen   the fields of the robot
\*   R.action   the action turn() returns, R.thrown an error is in flight
\*   R.steps    the steps executed so far
\* The decisions of the role logic are inputs of the turn: what it hears,
\* what it decides to do, the fuel of the team.
\* ---------------------------------------------------------------------
COMPETITION_MODE == TRUE

\* this.map.length
mapLength == Cardinality(Xs)

\* Math.ceil(mapSize / 8)
calculateTileSize(mapSize) == (mapSize + 7) \div 8

\* quantifyDirection(dx, dy): the eighth of the circle the vector points
\* to, for the vectors along the axes and diagonals
quantifyDirection(dx, dy) ==
    CASE dx > 0 /\ dy = 0 -> 0
      [] dx > 0 /\ dy > 0 -> 1
      [] dx = 0 /\ dy > 0 -> 2
      [] dx < 0 /\ dy > 0 -> 3
      [] dx < 0 /\ dy = 0 -> 4
      [] dx < 0 /\ dy < 0 -> 5
      [] dx = 0 /\ dy < 0 -> 6
      [] dx > 0 /\ dy < 0 -> 7
      [] OTHER -> 0

\* encodeBits([2, a, b], [2, 3, 3]) for the a and b that fit in three
\* bits, as a table (f @@ <<>> is f with every value worked out)
positionPart ==
    [a \in 0..7, b \in 0..7 |-> encodeBits(nums(<<2, a, b>>), <<2, 3, 3>>)] @@ <<>>

\* encodeBits([2, a, b], [2, 3, 3]), one part of a position message
encodePart(a, b) ==
    IF <<a, b>> \in DOMAIN positionPart THEN positionPart[a, b]
    ELSE encodeBits(nums(<<2, a, b>>), <<2, 3, 3>>)

\* castleTalkMessage(message_type, message_content, map_size): thrown, or
\* the msg argument of castleTalkSetEventMessage
castleTalkMessage(message_type, message_content, map_size) ==
    LET tileSize == calculateTileSize(map_size)
        single(e) == [thrown |-> e.thrown, msg |-> [isArray |-> FALSE, val |-> e.val]]
    IN IF message_type = "position" THEN
           LET coarse == encodePart(message_content[1] \div tileSize,
                                    message_content[2] \div tileSize)
               fine == encodePart(message_content[1] % tileSize,
                                  message_content[2] % tileSize)
           IN [thrown |-> coarse.thrown \/ fine.thrown,
               msg |-> [isArray |-> TRUE, val |-> <<coarse.val, fine.val>>]]
       ELSE IF message_type = "ident" THEN
           single(encodeBits(nums(<<0, 0, message_content + 1>>), <<2, 3, 3>>))
       ELSE IF message_type = "dbgClock" THEN
           single(encodeBits(nums(<<0, 7>>), <<2, 6>>))
       ELSE IF message_type = "alert" THEN
           single(encodeBits(nums(<<0, 5, message_content>>), <<2, 3, 3>>))
       ELSE IF message_type = "important" THEN
           [thrown |-> FALSE, msg |-> [isArray |-> FALSE, val |-> 64]]
       ELSE [thrown |-> TRUE, msg |-> [isArray |-> FALSE, val |-> 0]]

\* the outboxes of the robot as a record
box ==
    [rd_prio |-> _util_rd_prio, rd_msg |-> _util_rd_msg, rd_radiusSq |-> _util_rd_radiusSq,
     ct_prio |-> _util_ct_prio, ct_msg |-> _util_ct_msg, signalled |-> <<>>, talked |-> <<>>]

\* radioSetEventMessage on the record: the outboxes afterwards and the
\* value returned
radioSet(B, priority, msg, radius) ==
    IF loses(B.rd_prio, priority) THEN [box |-> B, won |-> FALSE]
    ELSE [box |-> [B EXCEPT !.rd_prio = Some(priority), !.rd_msg = Some(promote(msg)),
                            !.rd_radiusSq = Some(radius)],
          won |-> TRUE]

\* castleTalkSetEventMessage on the record
castleTalkSet(B, priority, msg) ==
    IF loses(B.ct_prio, priority) THEN [box |-> B, won |-> FALSE]
    ELSE [box |-> [B EXCEPT !.ct_prio = Some(priority), !.ct_msg = Some(promote(msg))],
          won |-> TRUE]

\* radioSendMessage on the record
radioSend(B) ==
    IF B.rd_msg # Null /\ Len(B.rd_msg[1]) > 0
    THEN [B EXCEPT !.signalled = Append(@, <<B.rd_msg[1][1], B.rd_radiusSq>>),
                   !.rd_msg = Some(slice1(B.rd_msg[1])),
                   !.rd_prio = IF Len(slice1(B.rd_msg[1])) = 0 THEN Null ELSE @]
    ELSE B

\* castleTalkSendMessage on the record
castleTalkSend(B) ==
    IF B.ct_msg # Null /\ Len(B.ct_msg[1]) > 0
    THEN [B EXCEPT !.talked = Append(@, B.ct_msg[1][1]),
                   !.ct_msg = Some(slice1(B.ct_msg[1])),
                   !.ct_prio = IF Len(slice1(B.ct_msg[1])) = 0 THEN Null ELSE @]
    ELSE B

\* a step of the turn is noted; a set operation with its outcome and the
\* first part of its message
did(R, name) == [R EXCEPT !.steps = Append(@, [name |-> name, won |-> FALSE, part |-> Undefined])]
didSet(R, name, won, msg) ==
    [R EXCEPT !.steps = Append(@, [name |-> name, won |-> won, part |-> promote(msg)[1]])]

\* throw: the error is in flight, no statement after it is executed
throw(R) == [R EXCEPT !.thrown = TRUE]

\* the attack of a castle (SPECS.UNITS[SPECS.CASTLE]): fuel per attack,
\* damage dealt
ATTACK_FUEL_COST == 10
ATTACK_DAMAGE == 10

\* onBirth(), its enqueue: the ident of a robot, the position of a castle
onBirthTalk(R, h) ==
    LET m == IF R.unit # CASTLE
             THEN castleTalkMessage("ident", R.unit, -1)
             ELSE castleTalkMessage("position", h.pos, mapLength)
        t == castleTalkSet(R.box, CASTLETALK_PRIO.IDENT, m.msg)
    IN IF m.thrown THEN throw(R)
       ELSE didSet([R EXCEPT !.box = t.box], "onBirth", t.won, m.msg)

\* this.worldKnowledge.updateFromPerception(this)
perception(R, h) ==
    LET w == updateFromPerception(R.wk, h.owner)
        R1 == did([R EXCEPT !.wk = w], "perception")
    IN IF w.thrown THEN throw(R1) ELSE R1

\* wrapAttack(dx, dy) of a castle, and updateWorldKnowledgeForAttack (the
\* damage of a castle does not spread)
wrapAttack(R, h, dx, dy) ==
    LET nx == h.pos[1] + dx
        ny == h.pos[2] + dy
        id == h.owner.botMap[ny][nx]
        w == IF id > 0 THEN applyDamage(R.wk, id, ATTACK_DAMAGE) ELSE R.wk
    IN IF nx < 0 \/ ny < 0 \/ nx >= mapLength \/ ny >= mapLength THEN throw(R)
       ELSE IF h.owner.botMap[ny][nx] <= 0 THEN throw(R)
       ELSE IF h.fuel >= ATTACK_FUEL_COST
            THEN IF w.thrown THEN throw([R EXCEPT !.wk = w])
                 ELSE [R EXCEPT !.wk = w,
                                !.action = Some([kind |-> "attack", dx |-> dx, dy |-> dy])]
       ELSE R

\* structureBuildMiner(mineTarget) with the build spot found at dx, dy
structureBuildMiner(R, h, mineTarget, dx, dy) ==
    LET signal == encodeRadio([type |-> "mine", construct |-> FALSE,
                               x |-> mineTarget[1], y |-> mineTarget[2]])
        m == [isArray |-> FALSE, val |-> signal.val]
        r == dx * dx + dy * dy
        t == radioSet(R.box, RADIO_PRIO.TARGET, m, r)
        R1 == didSet([R EXCEPT !.box = t.box], "radioSet", t.won, m)
    IN IF signal.thrown THEN throw(R)
       ELSE IF ~t.won THEN R1
       ELSE [R1 EXCEPT !.action = Some([kind |-> "build", dx |-> dx, dy |-> dy])]

\* turnRobotSpecific(): the role logic.  It decodes the signal of a robot
\* next to it (getIdleMove, militaryHandleRadio), then does what it has
\* decided: nothing, a move, an attack, the build of a miner
turnRobotSpecific(R, h) ==
    LET R1 == did(R, "controller")
        d == h.decision
    IN IF h.heard # Null /\ decodeRadio(h.heard[1]).thrown THEN throw(R1)
       ELSE IF d.kind = "attack" THEN wrapAttack(R1, h, d.dx, d.dy)
       ELSE IF d.kind = "build" THEN structureBuildMiner(R1, h, <<d.dx, d.dy>>, d.dx, d.dy)
       ELSE IF d.kind = "move" THEN
           [R1 EXCEPT !.action = Some([kind |-> "move", dx |-> d.dx, dy |-> d.dy])]
       ELSE R1

\* "Set castle talk position message"
positionTalk(R, h) ==
    LET m == castleTalkMessage("position", h.pos, mapLength)
        t == castleTalkSet(R.box, CASTLETALK_PRIO.POSITION, m.msg)
    IN IF m.thrown THEN throw(R)
       ELSE didSet([R EXCEPT !.box = t.box], "positionTalk", t.won, m.msg)

\* findClosestVisiblePredicate(r => r.team === 1 - this.me.team &&
\* r.unit !== SPECS.PILGRIM): the index of the robot in bots, 0 if none
closestEnemy(R, h) ==
    LET enemies == {i \in 1..Len(h.owner.bots) :
                       /\ h.owner.bots[i].visible
                       /\ h.owner.bots[i].team = 1 - R.team
                       /\ h.owner.bots[i].unit # PILGRIM}
        far(i) == radiusSq(<<h.pos[1] - h.owner.bots[i].x, h.pos[2] - h.owner.bots[i].y>>)
    IN IF enemies = {} THEN 0
       ELSE CHOOSE i \in enemies :
               \A j \in enemies : far(i) < far(j) \/ (far(i) = far(j) /\ i <= j)

\* "Set alert messages if appropriate"
alertTalk(R, h) ==
    LET canReportAgain == R.alert_last = Null \/ h.turn - R.alert_last[1] >= 4
        e == closestEnemy(R, h)
        angle == quantifyDirection(h.owner.bots[e].x - h.pos[1], h.owner.bots[e].y - h.pos[2])
        m == castleTalkMessage("alert", angle, -1)
        t == castleTalkSet(R.box, CASTLETALK_PRIO.ALERT, m.msg)
        R1 == didSet([R EXCEPT !.box = t.box], "alertTalk", t.won, m.msg)
    IN IF ~canReportAgain \/ e = 0 THEN R
       ELSE IF m.thrown THEN throw(R)
       ELSE IF t.won THEN [R1 EXCEPT !.alert_last = Some(h.turn)]
       ELSE R1

\* "Send pending radio messages"
sends(R) ==
    LET R1 == did([R EXCEPT !.box = castleTalkSend(@)], "castleTalkSend")
    IN did([R1 EXCEPT !.box = radioSend(@)], "radioSend")

\* variant: the messages are sent before the role logic runs
statementsSendingFirst ==
    <<"onBirth", "perception", "sends", "controller", "positionTalk", "alertTalk", "ok">>

\* the statements of turn() after the frozen test, lines 3961-4019, in
\* their order
statements ==
    <<"onBirth", "perception", "controller", "positionTalk", "alertTalk", "sends", "ok">>

\* one statement of turn()
statement(name, R, h) ==
    CASE name = "onBirth" -> IF h.turn = 1 THEN onBirthTalk(R, h) ELSE R
      [] name = "perception" -> perception(R, h)
      [] name = "controller" -> turnRobotSpecific(R, h)
      [] name = "positionTalk" -> positionTalk(R, h)
      [] name = "alertTalk" -> alertTalk(R, h)
      [] name = "sends" -> sends(R)
      [] name = "ok" -> [R EXCEPT !.last_ok = Some(h.turn)]

\* the statements from the k-th on: no statement of turn() catches an
\* error, so the first error leaves the turn and nothing after it is
\* executed
RECURSIVE run(_, _, _)
run(k, R, h) ==
    IF R.thrown \/ k > Len(statements) THEN R
    ELSE run(k + 1, statement(statements[k], R, h), h)

\* variant: the turn after one that did not end returns at once
frozenReturnAlways(frozen) == frozen

\* lines 3955-3959: "I was frozen last turn"
frozenReturn(frozen) == ~COMPETITION_MODE /\ frozen

\* turn()
turn(R, h) ==
    LET frozen == h.turn # 1 /\ R.last_ok # Some(h.turn - 1)
    IN IF frozenReturn(frozen)
       THEN [R EXCEPT !.frozen = frozen, !.last_ok = Some(h.turn)]
       ELSE run(1, [R EXCEPT !.frozen = frozen], h)

\* the robot before a turn
robot ==
    [box |-> box, wk |-> this, last_ok |-> _util_last_ok_turn,
     alert_last |-> _wl_alert_last_turn, frozen |-> _util_frozen,
     unit |-> me.unit, team |-> me.team,
     action |-> Null, thrown |-> FALSE, steps |-> <<>>]

\* what the host reports in a turn: robot 1, a church of the other team at
\* (0,1), and robot 2, a pilgrim of the other team at (1,0), each in sight
\* or not
TurnSightings ==
    LET absent == CHOOSE r \in Reports : r.kind = "absent"
        church == [kind |-> "visible", team |-> 1, unit |-> CHURCH, x |-> 0, y |-> 1]
        pilgrim == [kind |-> "visible", team |-> 1, unit |-> PILGRIM, x |-> 1, y |-> 0]
    IN {<<a, b>> : a \in {absent, church}, b \in {absent, pilgrim}}

\* the signal of a robot next to this one: none, "hold", "repulse", or an
\* integer that is no message
Heard == {Null, Some(8192), Some(8193), Some(8194)}

\* what the role logic decides
Decisions ==
    {[kind |-> "idle", dx |-> 0, dy |-> 0], [kind |-> "move", dx |-> 1, dy |-> 1],
     [kind |-> "build", dx |-> 1, dy |-> 1]}
    \cup {[kind |-> "attack", dx |-> t[1], dy |-> t[2]] : t \in {<<0, 1>>, <<1, 0>>, <<-1, 0>>}}

\* this.fuel
TurnFuels == {0, ATTACK_FUEL_COST}

\* the turn is not in use
IdleTurn ==
    /\ _util_last_ok_turn = Null
    /\ _wl_alert_last_turn = Null
    /\ turnAction = Null
    /\ raised = FALSE
    /\ steps = <<>>

\* the host calls turn() of a robot for the next turn
RobotTurn ==
    /\ me_turn < LastTurn
    /\ me_turn' = me_turn + 1
    /\ \E f \in TurnSightings, heard \in Heard, decision \in Decisions, fl \in TurnFuels :
          /\ heard # Null => \E i \in Ids : f[i].kind = "visible"
          /\ decision.kind \in (IF me.unit = CASTLE THEN {"idle", "attack", "build"}
                                ELSE {"idle", "move"})
          /\ \E R \in {turn(robot, [turn |-> me_turn + 1, pos |-> me_xy, owner |-> owner(f, {}),
                                    heard |-> heard, decision |-> decision, fuel |-> fl])} :
                /\ _util_rd_prio' = R.box.rd_prio
                /\ _util_rd_msg' = R.box.rd_msg
                /\ _util_rd_radiusSq' = R.box.rd_radiusSq
                /\ _util_ct_prio' = R.box.ct_prio
                /\ _util_ct_msg' = R.box.ct_msg
                /\ signalled' = R.box.signalled
                /\ talked' = R.box.talked
                /\ _util_known_bots' = R.wk.bots
                /\ _util_known_structures' = R.wk.structs
                /\ cb_calls' = R.wk.calls
                /\ log' = R.wk.log
                /\ _util_last_ok_turn' = R.last_ok
                /\ _wl_alert_last_turn' = R.alert_last
                /\ _util_frozen' = R.frozen
                /\ turnAction' = R.action
                /\ raised' = R.thrown
                /\ steps' = R.steps
                /\ ret' = IF R.thrown THEN "throw" ELSE "value"
    /\ op' = "turn"
    /\ UNCHANGED <<_util_wk_terminate_cb, _util_wk_initial_cb, me, pre, bitVars, pqVars, rdVars,
                   fpVars, ctVars, cvVars, lateVars, _util_path, _util_path_targets, _util_path_mode, me_xy,
                   me_time, fuel, searched, navMove, pathBefore, navCalls>>

\* the host stops a turn that overdraws its clock: turn() is cut off after
\* its first statement
Overrun ==
    /\ me_turn < LastTurn
    /\ me_turn' = me_turn + 1
    /\ _util_frozen' = (me_turn + 1 # 1 /\ _util_last_ok_turn # Some(me_turn))
    /\ turnAction' = Null
    /\ raised' = FALSE
    /\ steps' = <<>>
    /\ signalled' = <<>>
    /\ talked' = <<>>
    /\ cb_calls' = <<>>
    /\ log' = <<>>
    /\ op' = "overrun"
    /\ ret' = "none"
    /\ UNCHANGED <<_util_rd_prio, _util_rd_msg, _util_rd_radiusSq, _util_ct_prio, _util_ct_msg,
                   _util_known_bots, _util_known_structures, _util_wk_terminate_cb,
                   _util_wk_initial_cb, me, _util_last_ok_turn, _wl_alert_last_turn, pre,
                   bitVars, pqVars, rdVars, fpVars, ctVars, cvVars, lateVars, _util_path, _util_path_targets,
                   _util_path_mode, me_xy, me_time, fuel, searched, navMove, pathBefore,
                   navCalls>>

\* the components added after the navigation are at rest
\* ---------------------------------------------------------------------
\* The routines of the role controllers that order other robots by radio.
\* A routine works on the record S of the radio outbox, the fields the
\* routines keep (ctl), what radioSetEventMessage returned to it (won) and
\* what it returns (ret); t is this.me.turn.
\* ---------------------------------------------------------------------
CHARGE_DURATION == 6
MILITARY_STATE == [TARGET_MIRROR |-> 0, HOLD |-> 1, TARGET_TARGETS |-> 2, HOME |-> 3, CHARGE |-> 4]

\* a number as the message argument of the set call
single(sig) == [isArray |-> FALSE, val |-> sig.val]

\* this.radioSetEventMessage(priority, msg, radius) called by a routine
setsRadio(S, priority, msg, radius) ==
    LET t == radioSet(S.box, priority, msg, radius)
    IN [S EXCEPT !.box = t.box, !.won = Some(t.won)]

\* structureBuildLattice(unit), a lattice target and a build spot found
structureBuildLattice(S, target) ==
    LET msg == encodeRadio([type |-> "targetOnConstruct", x |-> target[1], y |-> target[2],
                            alsoMirror |-> FALSE])
        S1 == setsRadio(S, RADIO_PRIO.TARGET, single(msg), 2)
    IN IF ~S1.won[1] THEN S1 ELSE [S1 EXCEPT !.ret = "build"]

\* castleExpandAgressively(expand, queue), its escort branch with a build
\* spot found
castleExpandAgressively(S, t, target, alsoMirror) ==
    LET msg == encodeRadio([type |-> "targetOnConstruct", x |-> target[1], y |-> target[2],
                            alsoMirror |-> alsoMirror])
        S1 == setsRadio(S, RADIO_PRIO.TARGET, single(msg), 2)
    IN IF ~S1.won[1] THEN S1
       ELSE [S1 EXCEPT !.ctl._castle_escort_turn = Some(t), !.ret = "build"]

\* castleOrderAllAttack(fuelReserve, target): one message part for every
\* enemy castle
castleOrderAllAttack(S, t, eCastles, sendRadiusSq) ==
    LET msg == [isArray |-> TRUE,
                val |-> [i \in 1..Len(eCastles) |->
                            encodeRadio([type |-> "target", clearExisting |-> (i = 1),
                                         x |-> eCastles[i][1], y |-> eCastles[i][2]]).val]]
    IN IF S.ctl._castle_attack_turn # Null /\ t - S.ctl._castle_attack_turn[1] < 20
       THEN [S EXCEPT !.ret = "false"]
       ELSE LET S1 == [S EXCEPT !.ctl._castle_attack_turn = Some(t)]
                S2 == setsRadio(S1, RADIO_PRIO.TARGET, msg, sendRadiusSq)
            IN [S2 EXCEPT !.ret = "true"]

\* the charge orders: of a leading robot that looks along (1, 0), and of a
\* structure towards its mirror image in direction 0
leadChargeMsg ==
    encodeRadio([type |-> "charge", direction |-> quantifyDirection(1, 0),
                 crusader |-> TRUE, mage |-> TRUE, archer |-> TRUE])
mirrorChargeMsg ==
    encodeRadio([type |-> "charge", direction |-> 0, crusader |-> TRUE,
                 mage |-> FALSE, archer |-> FALSE])

\* militaryLeadCharge(direction) of a robot with a direction and fuel; msg
\* is the charge order encoded
militaryLeadCharge(S, t, msg) ==
    IF S.ctl._military_charge_end_turn # Null /\ t <= S.ctl._military_charge_end_turn[1]
    THEN [S EXCEPT !.ret = "false"]
    ELSE LET S1 == setsRadio(S, RADIO_PRIO.CHARGE, single(msg), 64)
         IN IF S1.won[1]
            THEN [S1 EXCEPT !.ctl._military_charge_end_turn = Some(t + CHARGE_DURATION),
                            !.ctl._military_state = MILITARY_STATE.CHARGE,
                            !.ret = "true"]
            ELSE [S1 EXCEPT !.ret = "false"]

\* structureCheckCharge() of a structure the terrain and the crusaders in
\* sight allow to charge; msg is the charge order encoded
structureCheckCharge(S, t, msg) ==
    LET canChargeAgain == \/ S.ctl._structure_mirror_charge_turn = Null
                          \/ t - S.ctl._structure_mirror_charge_turn[1] > 20
    IN IF ~canChargeAgain THEN S
       ELSE LET S1 == setsRadio(S, RADIO_PRIO.CHARGE, single(msg), 100)
            IN IF S1.won[1] THEN [S1 EXCEPT !.ctl._structure_mirror_charge_turn = Some(t)]
               ELSE S1

\* repulse()
repulse(S, t) ==
    LET canRepulseAgain == \/ S.ctl._repulse_last_turn = Null
                           \/ t - S.ctl._repulse_last_turn[1] > 3
    IN IF ~canRepulseAgain THEN S
       ELSE LET S1 == setsRadio(S, RADIO_PRIO.REPULSE, single(encodeRadio([type |-> "repulse"])), 2)
            IN IF S1.won[1] THEN [S1 EXCEPT !.ctl._repulse_last_turn = Some(t)] ELSE S1

\* structureDefend(), its order to concentrate fire: the enemy is
\* outnumbered; fueled is this.fuel >= 300
structureDefend(S, t, closest_enemy, furthestFriendly, fueled) ==
    LET msg == encodeRadio([type |-> "target", x |-> closest_enemy[1], y |-> closest_enemy[2],
                            clearExisting |-> TRUE])
    IN IF \/ S.ctl._structure_last_defend_radio = Null
          \/ (t - S.ctl._structure_last_defend_radio[1] > 5 /\ fueled)
       THEN LET S1 == setsRadio(S, RADIO_PRIO.TARGET, single(msg), furthestFriendly)
            IN IF S1.won[1] THEN [S1 EXCEPT !.ctl._structure_last_defend_radio = Some(t)]
               ELSE S1
       ELSE S

\* no routine has run
IdleCtl ==
    /\ ctl = [_castle_attack_turn |-> Null, _castle_escort_turn |-> Null,
              _military_charge_end_turn |-> Null, _military_state |-> MILITARY_STATE.HOLD,
              _structure_mirror_charge_turn |-> Null, _repulse_last_turn |-> Null,
              _structure_last_defend_radio |-> Null]
    /\ setReturned = Null

\* the routine before its first statement
routine == [box |-> box, ctl |-> ctl, won |-> Null, ret |-> "void"]

\* the controller of this turn has not returned: no routine has given it
\* a build to return, and no attack order has succeeded
goesOn == ~(ret = "build" \/ (op = "castleOrderAllAttack" /\ ret = "true"))

\* the place of a routine in the controller of a structure: the defence
\* first, then the miner or the expansion or the attack order, then the
\* lattice, at last the mirror charge; 0 before the first routine of a turn
place(name) ==
    CASE name = "structureDefend" -> 1
      [] name \in {"structureBuildMiner", "castleExpandAgressively", "castleOrderAllAttack"} -> 2
      [] name = "structureBuildLattice" -> 3
      [] name = "structureCheckCharge" -> 4
      [] name \in {"militaryLeadCharge", "repulse"} -> 1
      [] OTHER -> 0

\* the routine named name, called by the controller, took the robot to S
ran(S, name) ==
    /\ goesOn
    /\ place(op) < place(name)
    /\ _util_rd_prio' = S.box.rd_prio
    /\ _util_rd_msg' = S.box.rd_msg
    /\ _util_rd_radiusSq' = S.box.rd_radiusSq
    /\ ctl' = S.ctl
    /\ setReturned' = S.won
    /\ op' = name
    /\ ret' = S.ret
    /\ UNCHANGED <<_util_ct_prio, _util_ct_msg, signalled, talked, pre, bitVars, wkVars,
                   pqVars, rdVars, fpVars, navVars, ctVars, tnVars, lateVars>>

\* the cells a routine names
CtlTargets == {<<1, 1>>, <<2, 1>>}

StructureBuildMiner ==
    /\ me.unit \in {CASTLE, CHURCH}
    /\ \E mineTarget \in CtlTargets :
          \E R \in {structureBuildMiner(robot, [pos |-> me_xy], mineTarget, 1, 1)} :
              ran([box |-> R.box, ctl |-> ctl, won |-> Some(R.steps[Len(R.steps)].won),
                   ret |-> IF R.action # Null THEN "build" ELSE "void"],
                  "structureBuildMiner")

StructureBuildLattice ==
    /\ me.unit \in {CASTLE, CHURCH}
    /\ \E target \in CtlTargets :
          \E S \in {structureBuildLattice(routine, target)} : ran(S, "structureBuildLattice")

CastleExpandAgressively ==
    /\ me.unit = CASTLE
    /\ \E target \in CtlTargets, alsoMirror \in BOOLEAN :
          \E S \in {castleExpandAgressively(routine, me_turn, target, alsoMirror)} :
              ran(S, "castleExpandAgressively")

CastleOrderAllAttack ==
    /\ me.unit = CASTLE
    /\ \E eCastles \in {<<<<1, 1>>>>, <<<<1, 1>>, <<2, 1>>>>} :
          \E S \in {castleOrderAllAttack(routine, me_turn, eCastles, 64)} :
              ran(S, "castleOrderAllAttack")

MilitaryLeadCharge ==
    /\ me.unit = CRUSADER
    /\ \E S \in {militaryLeadCharge(routine, me_turn, leadChargeMsg)} : ran(S, "militaryLeadCharge")

StructureCheckCharge ==
    /\ me.unit \in {CASTLE, CHURCH}
    /\ \E S \in {structureCheckCharge(routine, me_turn, mirrorChargeMsg)} : ran(S, "structureCheckCharge")

Repulse ==
    /\ me.unit = PILGRIM
    /\ \E S \in {repulse(routine, me_turn)} : ran(S, "repulse")

StructureDefend ==
    /\ me.unit \in {CASTLE, CHURCH}
    /\ \E fueled \in BOOLEAN :
          \E S \in {structureDefend(routine, me_turn, <<1, 1>>, 2, fueled)} :
              ran(S, "structureDefend")

\* the end of the turn: turn() sends the pending radio part, and the next
\* turn begins
EndTurn ==
    /\ me_turn < MaxCtlTurn
    /\ me_turn' = me_turn + 1
    /\ \E B \in {radioSend(box)} :
          /\ _util_rd_prio' = B.rd_prio
          /\ _util_rd_msg' = B.rd_msg
          /\ signalled' = B.signalled
    /\ setReturned' = Null
    /\ op' = "radioSendMessage"
    /\ ret' = "void"
    /\ UNCHANGED <<_util_rd_radiusSq, _util_ct_prio, _util_ct_msg, talked, ctl, pre, bitVars,
                   _util_known_bots, _util_known_structures, _util_wk_terminate_cb,
                   _util_wk_initial_cb, me, cb_calls, log,
                   pqVars, rdVars, fpVars, navVars, ctVars, tnVars, lateVars>>

\* ---------------------------------------------------------------------
\* Strategy: the 8x8 grids a structure keeps its scores in, addressed by
\* toGrid.  An operation is followed by the index pairs it uses.
\* ---------------------------------------------------------------------
GRIDS == 8

floorDiv(a, b) == a \div b

\* variant: toGrid without the clamp to the map
toGridUnclamped(x, y, mapSize) ==
    <<floorDiv(x * GRIDS, mapSize), floorDiv(y * GRIDS, mapSize)>>

\* toGrid(x, y) of a strategy of map size mapSize
toGrid(x, y, mapSize) ==
    LET cx == IF x < 0 THEN 0 ELSE IF x >= mapSize THEN mapSize - 1 ELSE x
        cy == IF y < 0 THEN 0 ELSE IF y >= mapSize THEN mapSize - 1 ELSE y
    IN <<floorDiv(cx * GRIDS, mapSize), floorDiv(cy * GRIDS, mapSize)>>

max(a, b) == IF a > b THEN a ELSE b
min(a, b) == IF a < b THEN a ELSE b

\* markDangerous(x, y): the index pairs [my][mx] of the Moore neighbourhood
\* and [gy][gx]
markDangerous(x, y, mapSize) ==
    LET g == toGrid(x, y, mapSize)
        xMin == max(0, g[1] - 1)
        xMax == min(GRIDS - 1, g[1] + 1)
        yMin == max(0, g[2] - 1)
        yMax == min(GRIDS - 1, g[2] + 1)
    IN {<<my, mx>> : my \in yMin..yMax, mx \in xMin..xMax} \cup {<<g[2], g[1]>>}

\* getDanger(x, y) and updateFriendly(r): the index pair [gy][gx]
getDanger(x, y, mapSize) ==
    LET g == toGrid(x, y, mapSize) IN {<<g[2], g[1]>>}
updateFriendly(x, y, mapSize) ==
    LET g == toGrid(x, y, mapSize) IN {<<g[2], g[1]>>}

\* the positions handed to a strategy: on the map and around it
GridPositions(mapSize) == ((-Overshoot)..(mapSize - 1 + Overshoot)) \X ((-Overshoot)..(mapSize - 1 + Overshoot))

IdleGrid ==
    /\ _mapSize = 0
    /\ gridArgs = <<0, 0>>
    /\ gridCell = Null
    /\ gridTouched = {}

\* new Strategy(mapSize, logger)
InitGrid ==
    /\ _mapSize \in 1..MaxMapSize
    /\ gridArgs = <<0, 0>>
    /\ gridCell = Null
    /\ gridTouched = {}

\* the operation named name was called on position p and used the index
\* pairs T
gridStep(name, p, T) ==
    /\ gridArgs' = p
    /\ gridCell' = Some(toGrid(p[1], p[2], _mapSize))
    /\ gridTouched' = T
    /\ op' = name
    /\ ret' = "value"
    /\ UNCHANGED <<_mapSize, pre, msgVars, bitVars, wkVars, pqVars, rdVars, fpVars, navVars,
                   ctVars, tnVars, cvVars, ptVars, mlVars, tailVars>>

ToGrid ==
    \E p \in GridPositions(_mapSize) : gridStep("toGrid", p, {})
MarkDangerous ==
    \E p \in GridPositions(_mapSize) :
        gridStep("markDangerous", p, markDangerous(p[1], p[2], _mapSize))
GetDanger ==
    \E p \in GridPositions(_mapSize) :
        gridStep("getDanger", p, getDanger(p[1], p[2], _mapSize))
UpdateFriendly ==
    \E p \in GridPositions(_mapSize) :
        gridStep("updateFriendly", p, updateFriendly(p[1], p[2], _mapSize))

\* ---------------------------------------------------------------------
\* The position report: a robot enqueues its position every turn and sends
\* one castle talk part per turn; a castle reads the castle talk of the
\* robot in each of its own turns and puts the position together from two
\* parts.  The robot and the castle take their turns alternately.
\* ---------------------------------------------------------------------
\* the tiles a reporting robot is on: the two diagonals of a map of side
\* n, on which either coordinate takes every value
Reported(n) ==
    {q \in (0..(n - 1)) \X (0..(n - 1)) : q[1] = q[2] \/ q[1] + q[2] = n - 1}

\* castleTalkMessage("position", pos, n) for the tiles reported from
positionMessage ==
    [n \in 1..MaxMapLength |->
        [pos \in Reported(n) |-> castleTalkMessage("position", pos, n)]]

\* decryptCastleTalk for every castle talk value, as a table
talkMessage == [v \in TalkValues |-> decryptCastleTalk(v).val] @@ <<>>

\* the vector to the closest enemy the reporting robot sees
Enemies == {Null, Some(<<-1, -1>>)}

\* castleTalkMessage("alert", angle) for the enemy seen
alertMessage ==
    [e \in Enemies \ {Null} |->
        castleTalkMessage("alert", quantifyDirection(e[1][1], e[1][2]), -1)] @@ <<>>

\* castleTalkMessage("ident", unit)
identMessage == [u \in Units |-> castleTalkMessage("ident", u, -1)] @@ <<>>

\* the outbox of the reporting robot before a turn
senderBox(s) ==
    [rd_prio |-> Null, rd_msg |-> Null, rd_radiusSq |-> Null,
     ct_prio |-> s.ct_prio, ct_msg |-> s.ct_msg, signalled |-> <<>>, talked |-> <<>>]

\* onBirth(), lines 2000-2007, in the first turn: the castle talk the robot
\* introduces itself with
birthTalk(s, B, n) ==
    IF s.turn # 0 THEN [box |-> B, won |-> FALSE]
    ELSE IF s.unit # CASTLE
    THEN castleTalkSet(B, CASTLETALK_PRIO.IDENT, identMessage[s.unit].msg)
    ELSE castleTalkSet(B, CASTLETALK_PRIO.IDENT, positionMessage[n][s.pos].msg)

\* turn() of the reporting robot, lines 3998-4016, as far as its castle
\* talk goes.  birth, p and a are the outcomes of the enqueues of onBirth,
\* of the position and of the alert, B the outbox after the send.  pending
\* is the serial and position of the position message in the outbox, sent
\* the serial, part and position of the part transmitted
senderAfter(s, birth, p, a, B) ==
    LET t == s.turn + 1
        pending == IF a.won THEN Null
                   ELSE IF p.won \/ (birth.won /\ s.unit = CASTLE) THEN Some([serial |-> t, pos |-> s.pos])
                   ELSE IF birth.won THEN Null
                   ELSE s.pending
    IN [s EXCEPT !.turn = t,
                 !.ct_prio = B.ct_prio,
                 !.ct_msg = B.ct_msg,
                 !.alert_last = IF a.won THEN Some(t) ELSE @,
                 !.talked = B.talked,
                 !.enqueued = a.box.ct_msg,
                 !.pending = IF B.ct_msg = Some(<<>>) THEN Null ELSE pending,
                 !.sent = IF B.talked = <<>> \/ pending = Null THEN Null
                          ELSE Some([serial |-> pending[1].serial,
                                     part |-> 3 - Len(a.box.ct_msg[1]),
                                     pos |-> pending[1].pos])]

\* "Set alert messages if appropriate", enemy being the vector to the
\* closest enemy in sight, Null if there is none
alertSet(s, B, enemy) ==
    LET canReportAgain == s.alert_last = Null \/ (s.turn + 1) - s.alert_last[1] >= 4
    IN IF canReportAgain /\ enemy # Null
       THEN castleTalkSet(B, CASTLETALK_PRIO.ALERT, alertMessage[enemy].msg)
       ELSE [box |-> B, won |-> FALSE]

\* a turn() of the reporting robot that an error ends before line 3999:
\* nothing but the talk of onBirth is enqueued and nothing is transmitted
senderAfterRaising(s, birth) ==
    [s EXCEPT !.turn = s.turn + 1,
              !.ct_prio = birth.box.ct_prio,
              !.ct_msg = birth.box.ct_msg,
              !.talked = <<>>,
              !.enqueued = birth.box.ct_msg,
              !.pending = IF birth.won /\ s.unit = CASTLE
                          THEN Some([serial |-> s.turn + 1, pos |-> s.pos])
                          ELSE @,
              !.sent = Null]

\* variant: a message other than a position leaves the reassembly as it is
castleUpdateFromCastleTalkNoReset(C, talk, n) ==
    LET msg == talkMessage[talk]
        known == C.updates # Null
        state == IF known THEN C.updates[1] ELSE 1
        grid == IF known THEN C.grids ELSE Null
        tile_size == calculateTileSize(n)
    IN IF talk = 0 THEN [updates |-> C.updates, grids |-> C.grids, heard |-> Null]
       ELSE IF msg.type = "position" THEN
           IF state = 1
           THEN [updates |-> Some(2), grids |-> Some(msg.content), heard |-> Null]
           ELSE [updates |-> Some(1), grids |-> grid,
                 heard |-> Some(<<grid[1][1] * tile_size + msg.content[1],
                                  grid[1][2] * tile_size + msg.content[2]>>)]
       ELSE [updates |-> C.updates, grids |-> C.grids, heard |-> Null]

\* castleUpdateFromCastleTalk(), the body of the loop for one robot of
\* castle talk talk: robotPositionUpdates and robotGrids of the robot
\* afterwards, and heard, the position <<r_x, r_y>> put together for
\* updatePosition, Null if none was
castleUpdateFromCastleTalk(C, talk, n) ==
    LET msg == talkMessage[talk]
        known == C.updates # Null
        state == IF known THEN C.updates[1] ELSE 1
        grid == IF known THEN C.grids ELSE Null
        tile_size == calculateTileSize(n)
    IN IF talk = 0 THEN [updates |-> C.updates, grids |-> C.grids, heard |-> Null]
       ELSE IF msg.type = "position" THEN
           IF state = 1
           THEN [updates |-> Some(2), grids |-> Some(msg.content), heard |-> Null]
           ELSE [updates |-> Some(1), grids |-> grid,
                 heard |-> Some(<<grid[1][1] * tile_size + msg.content[1],
                                  grid[1][2] * tile_size + msg.content[2]>>)]
       ELSE [updates |-> Some(1), grids |-> C.grids, heard |-> Null]

\* where a robot at pos is after its turn: a castle stays, another robot
\* moves one tile along its diagonal, back when it is at the end of it
Moves(unit, pos, n) ==
    LET x == pos[1]
        y == pos[2]
        on(q) == q \in Reported(n)
    IN IF unit = CASTLE THEN {pos}
       ELSE IF on(<<x + 1, y + 1>>) THEN {<<x + 1, y + 1>>}
       ELSE IF on(<<x + 1, y - 1>>) THEN {<<x + 1, y - 1>>}
       ELSE IF on(<<x - 1, y - 1>>) THEN {<<x - 1, y - 1>>}
       ELSE IF on(<<x - 1, y + 1>>) THEN {<<x - 1, y + 1>>}
       ELSE {pos}

IdlePos ==
    /\ map_length = 0
    /\ sender = Null
    /\ sender_talk = 0
    /\ talkTurn = "none"
    /\ robotPositionUpdates = Null
    /\ robotGrids = Null
    /\ heardPos = Null
    /\ sentOf = Null
    /\ gridOf = Null
    /\ heardOf = Null

\* a robot before its first turn, anywhere on a map of any size, and a
\* castle that has not heard of it
InitPos ==
    /\ map_length \in 1..MaxMapLength
    /\ sender \in [unit : {CASTLE, PILGRIM}, turn : {0},
                    pos : Reported(map_length),
                    ct_prio : {Null}, ct_msg : {Null}, alert_last : {Null}, thrown : {FALSE},
                    talked : {<<>>}, enqueued : {Null}, pending : {Null}, sent : {Null}]
    /\ sender_talk = 0
    /\ talkTurn = "sender"
    /\ robotPositionUpdates = Null
    /\ robotGrids = Null
    /\ heardPos = Null
    /\ sentOf = Null
    /\ gridOf = Null
    /\ heardOf = Null

\* the reporting robot has had its turn and is on one of the tiles moves
senderStep(name, s, moves) ==
    /\ talkTurn = "sender"
    /\ sender.turn < LastTalkTurn
    /\ \E q \in moves : sender' = [s EXCEPT !.pos = q]
    /\ sender_talk' = IF s.talked = <<>> THEN 0 ELSE s.talked[1]
    /\ sentOf' = s.sent
    /\ talkTurn' = "castle"
    /\ op' = name
    /\ ret' = "value"
    /\ UNCHANGED <<map_length, robotPositionUpdates, robotGrids, heardPos, gridOf, heardOf,
                   pre, msgVars, bitVars, wkVars, pqVars, rdVars, fpVars, navVars,
                   ctVars, tnVars, cvVars, sgVars, mlVars, tailVars>>

\* turn() of the reporting robot
SenderTurn ==
    \E enemy \in Enemies :
      \E m \in {positionMessage[map_length][sender.pos]} :
        \E birth \in {birthTalk(sender, senderBox(sender), map_length)} :
          \E p \in {castleTalkSet(birth.box, CASTLETALK_PRIO.POSITION, m.msg)} :
            \E a \in {alertSet(sender, p.box, enemy)} :
              \E B \in {castleTalkSend(a.box)} :
                \E s \in {senderAfter(sender, birth, p, a, B)} :
                    senderStep("turn", [s EXCEPT !.thrown = m.thrown],
                               Moves(sender.unit, sender.pos, map_length))

\* turn() of the reporting robot, ended by an error before its castle talk
SenderTurnRaising ==
    \E birth \in {birthTalk(sender, senderBox(sender), map_length)} :
        \E s \in {senderAfterRaising(sender, birth)} : senderStep("turn", s, {sender.pos})

\* castleUpdateFromCastleTalk() in the turn of the castle
CastleUpdateFromCastleTalk ==
    /\ talkTurn = "castle"
    /\ \E C \in {castleUpdateFromCastleTalk([updates |-> robotPositionUpdates, grids |-> robotGrids],
                                              sender_talk, map_length)} :
          /\ robotPositionUpdates' = C.updates
          /\ robotGrids' = C.grids
          /\ heardPos' = IF C.heard # Null THEN C.heard ELSE heardPos
          /\ heardOf' = IF C.heard # Null THEN Some([grid |-> gridOf, part |-> sentOf])
                        ELSE heardOf
          /\ gridOf' = IF robotPositionUpdates # Some(2) /\ C.updates = Some(2) THEN sentOf ELSE gridOf
    /\ talkTurn' = "sender"
    /\ op' = "castleUpdateFromCastleTalk"
    /\ ret' = "value"
    /\ UNCHANGED <<map_length, sender, sender_talk, sentOf,
                   pre, msgVars, bitVars, wkVars, pqVars, rdVars, fpVars, navVars,
                   ctVars, tnVars, cvVars, sgVars, mlVars, tailVars>>

\* ---------------------------------------------------------------------
\* A military unit and the radio it hears.  The unit, a prophet of team 0,
\* stands at (1,1) of a map without obstacles or resources, mirrored along
\* the x axis; one other robot stands next to it at (2,1) and signals.
\* No robot is a target of an attack and none is hunted (lines 3398-3476
\* of turnMilitary return nothing).  Scores are in tenths.
\* ---------------------------------------------------------------------
\* the messages the robot next to the unit may signal
MilMessages ==
    {[type |-> "hold"], [type |-> "repulse"]}
    \cup [type : {"target"}, clearExisting : BOOLEAN, x : {0, 31}, y : {1, 32}]
    \cup {[type |-> "charge", crusader |-> FALSE, archer |-> TRUE, mage |-> FALSE, direction |-> 1]}
    \cup [type : {"targetOnConstruct"}, x : {1}, y : {0}, alsoMirror : BOOLEAN]

\* encodeRadio of these messages, as a table
milSignal == [m \in MilMessages |-> encodeRadio(m).val] @@ <<>>

\* the signals of a robot that is radioing: the messages, and an integer
\* that is no message
MilSignals == {milSignal[m] : m \in MilMessages} \cup {8194}

\* decodeRadio of these signals, as a table
\* the tiles an attack order names: the mirror images of the castles of
\* the team on a map of side OrderSide, and an expansion
OrderTiles == {<<0, 7>>, <<3, 6>>, <<2, 7>>, <<4, 4>>}

\* encodeRadio of the parts of an attack order, as a table
orderSignal ==
    [m \in [type : {"target"}, clearExisting : BOOLEAN, x : {t[1] : t \in OrderTiles},
            y : {t[2] : t \in OrderTiles}] |-> encodeRadio(m).val] @@ <<>>

radioMessage ==
    [v \in MilSignals \cup {orderSignal[m] : m \in DOMAIN orderSignal} |-> decodeRadio(v)] @@ <<>>

\* r.signal of a robot that is not radioing
NotRadioing == -1

\* isRadioing(r)
isRadioing(r) == r.signal >= 0

\* vectorFromQuantifiedDirection(d, 20)
vectorFromQuantifiedDirection20(d) ==
    CASE d = 0 -> <<20, 0>>
      [] d = 1 -> <<14, 14>>
      [] d = 2 -> <<0, 20>>
      [] d = 3 -> <<-14, 14>>
      [] d = 4 -> <<-20, 0>>
      [] d = 5 -> <<-14, -14>>
      [] d = 6 -> <<0, -20>>
      [] OTHER -> <<14, -14>>

\* mirror(x, y) on a map mirrored along the x axis
mirror(x, y, n) == <<x, n - 1 - y>>

\* what decodeRadio(r.signal) gives for the signal sig of a robot
decodedSignal(sig) == IF sig = NotRadioing THEN Null ELSE Some(radioMessage[sig])

\* the robots of getVisibleRobots(): the unit itself and the robot next to
\* it, which signals sig; msg is what decodeRadio gives for the signal
milRobots(other, sig) ==
    <<[id |-> 1, x |-> 1, y |-> 1, team |-> 0, unit |-> PROPHET, visible |-> TRUE,
       known |-> TRUE, signal |-> NotRadioing, msg |-> Null],
      [id |-> 2, x |-> 2, y |-> 1, team |-> other.team, unit |-> other.unit,
       visible |-> other.visible, known |-> other.known, signal |-> sig,
       msg |-> decodedSignal(sig)]>>

\* lines 1802-1809: the sender is trusted by vision or by knowledge
trusted(r, self) ==
    \/ r.visible /\ r.team = self.team
    \/ r.known

\* variant: a target is put at the end of the list
handleRadioAppending(M, msg, r, h) ==
    IF msg.type = "hold" THEN
        [M EXCEPT !._military_hold_turn = Some(h.turn),
                  !._military_state = MILITARY_STATE.HOLD]
    ELSE IF msg.type = "target" THEN
        LET kept == IF msg.clearExisting THEN <<>> ELSE M._military_targets
            other == SelectSeq(kept, LAMBDA t : t[1] # msg.x \/ t[2] # msg.y)
        IN [M EXCEPT !._military_targets = other \o <<<<msg.x, msg.y>>>>,
                     !._military_state = MILITARY_STATE.TARGET_TARGETS]
    ELSE IF msg.type = "targetOnConstruct" /\ h.turn = 1 THEN
        [M EXCEPT !._military_state = MILITARY_STATE.TARGET_TARGETS,
                  !._military_targets =
                      IF msg.alsoMirror THEN <<<<msg.x, msg.y>>, mirror(msg.x, msg.y, h.side)>>
                      ELSE <<<<msg.x, msg.y>>>>]
    ELSE IF msg.type = "charge" THEN
        IF \/ h.robots[1].unit = CRUSADER /\ msg.crusader
           \/ h.robots[1].unit = PROPHET /\ msg.archer
           \/ h.robots[1].unit = PREACHER /\ msg.mage
        THEN LET v == vectorFromQuantifiedDirection20(msg.direction)
             IN [M EXCEPT !._military_charge_direction =
                              Some(<<r.x - h.robots[1].x + v[1], r.y - h.robots[1].y + v[2]>>),
                          !._military_state = MILITARY_STATE.CHARGE,
                          !._military_charge_stuck_counter = Some(0),
                          !._military_charge_end_turn = Some(h.turn + CHARGE_DURATION)]
        ELSE M
    ELSE M

\* the body of the loop of militaryHandleRadio for the decoded message msg
\* of robot r
handleRadio(M, msg, r, h) ==
    IF msg.type = "hold" THEN
        [M EXCEPT !._military_hold_turn = Some(h.turn),
                  !._military_state = MILITARY_STATE.HOLD]
    ELSE IF msg.type = "target" THEN
        LET kept == IF msg.clearExisting THEN <<>> ELSE M._military_targets
            other == SelectSeq(kept, LAMBDA t : t[1] # msg.x \/ t[2] # msg.y)
        IN [M EXCEPT !._military_targets = <<<<msg.x, msg.y>>>> \o other,
                     !._military_state = MILITARY_STATE.TARGET_TARGETS]
    ELSE IF msg.type = "targetOnConstruct" /\ h.turn = 1 THEN
        [M EXCEPT !._military_state = MILITARY_STATE.TARGET_TARGETS,
                  !._military_targets =
                      IF msg.alsoMirror THEN <<<<msg.x, msg.y>>, mirror(msg.x, msg.y, h.side)>>
                      ELSE <<<<msg.x, msg.y>>>>]
    ELSE IF msg.type = "charge" THEN
        IF \/ h.robots[1].unit = CRUSADER /\ msg.crusader
           \/ h.robots[1].unit = PROPHET /\ msg.archer
           \/ h.robots[1].unit = PREACHER /\ msg.mage
        THEN LET v == vectorFromQuantifiedDirection20(msg.direction)
             IN [M EXCEPT !._military_charge_direction =
                              Some(<<r.x - h.robots[1].x + v[1], r.y - h.robots[1].y + v[2]>>),
                          !._military_state = MILITARY_STATE.CHARGE,
                          !._military_charge_stuck_counter = Some(0),
                          !._military_charge_end_turn = Some(h.turn + CHARGE_DURATION)]
        ELSE M
    ELSE M

\* militaryHandleRadio(): the fields afterwards, thrown if decodeRadio
\* raised
RECURSIVE militaryHandleRadio(_, _, _)
militaryHandleRadio(M, h, i) ==
    IF i > Len(h.robots) THEN [mil |-> M, thrown |-> FALSE]
    ELSE LET r == h.robots[i]
         IN IF h.robots[1].id = r.id THEN militaryHandleRadio(M, h, i + 1)
            ELSE IF ~isRadioing(r) THEN militaryHandleRadio(M, h, i + 1)
            ELSE IF ~trusted(r, h.robots[1]) THEN militaryHandleRadio(M, h, i + 1)
            ELSE IF r.msg[1].thrown THEN [mil |-> M, thrown |-> TRUE]
            ELSE militaryHandleRadio(handleRadio(M, r.msg[1].val, r, h), h, i + 1)

\* generateTrueVisionPassableMap(): the tiles of the map no robot seen or
\* radioing stands on
milPassable(h) ==
    {q \in (0..(h.side - 1)) \X (0..(h.side - 1)) :
        \A i \in 1..Len(h.robots) :
            (h.robots[i].visible \/ isRadioing(h.robots[i])) =>
                q # <<h.robots[i].x, h.robots[i].y>>}

\* the robots of getVisibleRobotMap() on tile q
robotsOn(h, q) ==
    {i \in 1..Len(h.robots) : h.robots[i].visible /\ q = <<h.robots[i].x, h.robots[i].y>>}

\* the tiles around q
moore(q) == {<<q[1] + mx, q[2] + my>> : mx \in -1..1, my \in -1..1} \ {q}

\* the robots on the tiles around q that are on the map
around(h, q) ==
    UNION {robotsOn(h, nq) : nq \in {t \in moore(q) : /\ t[1] >= 0 /\ t[2] >= 0
                                                       /\ t[1] < h.side /\ t[2] < h.side}}

\* lines 1633-1634 raise for the tile q: a robot around it signals what
\* decodeRadio rejects
idleRaises(h, q) ==
    \E i \in around(h, q) : isRadioing(h.robots[i]) /\ h.robots[i].msg[1].thrown

\* a robot around q is repulsing
nearRepulsing(h, q) ==
    \E i \in around(h, q) :
        isRadioing(h.robots[i]) /\ h.robots[i].msg[1].val.type = "repulse"

\* the score getIdleMove gives the tile q reached by the move d, in tenths
idleScore(h, q, d) ==
    LET onLattice == (q[1] % 2 = 1) \/ (q[2] % 2 = 0)
        outside == {t \in moore(q) : t[1] < 0 \/ t[2] < 0 \/ t[1] >= h.side \/ t[2] >= h.side}
        repulsing == {i \in around(h, q) :
                         /\ isRadioing(h.robots[i])
                         /\ h.robots[i].msg[1].val.type = "repulse"}
        structures == {i \in around(h, q) : h.robots[i].unit \in {CASTLE, CHURCH}}
    IN (IF onLattice THEN 13 ELSE 0)
       - Cardinality(outside)
       - 100 * Cardinality(repulsing)
       - 25 * Cardinality(structures)
       + (IF d = <<0, 0>> THEN 3 ELSE 0)

\* this.listDeltaTiles(0, SPECS.UNITS[this.me.unit].SPEED), as a table
idleMoves ==
    [u \in {PROPHET} |-> (listDeltaTiles(0, UNITS[u].SPEED) @@ <<>>)] @@ <<>>

\* the first of the moves of greatest score (line 1658 takes a move only
\* if it scores more than the best before it), scores being the score of
\* every move to a passable tile
bestIdle(scores) ==
    CHOOSE i \in DOMAIN scores :
        /\ \A j \in DOMAIN scores : scores[j] <= scores[i]
        /\ \A j \in DOMAIN scores : j < i => scores[j] < scores[i]

\* getIdleMove(): thrown, or idle: Null for undefined, else the move and
\* whether it is important
getIdleMove(M, h) ==
    LET self == h.robots[1]
        allMoves == idleMoves[self.unit]
        tile(d) == <<self.x + d[1], self.y + d[2]>>
        open(tv) == {i \in DOMAIN allMoves : tile(allMoves[i]) \in tv}
        stationaryBlocking(O) ==
            \E i \in O : allMoves[i] = <<0, 0>> /\ nearRepulsing(h, <<self.x, self.y>>)
        result(O, best) ==
            IF allMoves[best] = <<0, 0>> THEN [thrown |-> FALSE, idle |-> Null]
            ELSE [thrown |-> FALSE,
                  idle |-> Some([action |-> [kind |-> "move", dx |-> allMoves[best][1],
                                             dy |-> allMoves[best][2]],
                                 important |-> stationaryBlocking(O)
                                               /\ ~nearRepulsing(h, tile(allMoves[best]))])]
        scored(O) ==
            IF \E i \in O : idleRaises(h, tile(allMoves[i])) THEN [thrown |-> TRUE, idle |-> Null]
            ELSE IF O = {} THEN [thrown |-> FALSE, idle |-> Null]
            ELSE CHOOSE g \in {result(O, bestIdle(sc)) :
                                  sc \in {[i \in O |-> idleScore(h, tile(allMoves[i]), allMoves[i])]
                                          @@ <<>>}} : TRUE
    IN IF M._military_hold_turn # Null /\ h.turn - M._military_hold_turn[1] <= 5
       THEN [thrown |-> FALSE, idle |-> Null]
       ELSE CHOOSE g \in {scored(O) : O \in {open(tv) : tv \in {milPassable(h)}}} : TRUE

\* navigatePath(t, NAV.FASTEST) returns a move: navigationMove gives
\* none on a low clock (line 1154) and on the target (line 1166); a path
\* is taken as found
navigates(h, t) == ~(h.time < 40 \/ <<h.robots[1].x, h.robots[1].y>> = t)

\* turnMilitary() after militaryHandleRadio: the fight of lines 3345-3483
\* returns when the unit is busy with an enemy, else lines 3485-3526 do
\* what the state asks for.  A charge is taken as possible
militaryAct(M, h) ==
    IF h.busy THEN [mil |-> M, action |-> Some([kind |-> "combat"]), thrown |-> FALSE]
    ELSE IF M._military_state = MILITARY_STATE.HOLD THEN
        LET g == getIdleMove(M, h)
        IN IF g.thrown THEN [mil |-> M, action |-> Null, thrown |-> TRUE]
           ELSE IF g.idle # Null /\ (h.fuel >= 300 \/ g.idle[1].important)
           THEN [mil |-> M, action |-> Some(g.idle[1].action), thrown |-> FALSE]
           ELSE [mil |-> M, action |-> Null, thrown |-> FALSE]
    ELSE IF M._military_state = MILITARY_STATE.TARGET_MIRROR THEN
        [mil |-> M, action |-> Some([kind |-> "navigate", to |-> mirror(0, 0, h.side)]),
         thrown |-> FALSE]
    ELSE IF M._military_state = MILITARY_STATE.TARGET_TARGETS THEN
        LET t == M._military_targets[1]
            rest == Tail(M._military_targets)
        IN IF navigates(h, t)
           THEN [mil |-> M, action |-> Some([kind |-> "navigate", to |-> t]), thrown |-> FALSE]
           ELSE IF robotsOn(h, t) # {}
           THEN [mil |-> [M EXCEPT !._military_targets = rest,
                                   !._military_state = IF rest = <<>> THEN MILITARY_STATE.HOLD ELSE @],
                 action |-> Null, thrown |-> FALSE]
           ELSE [mil |-> M, action |-> Null, thrown |-> FALSE]
    ELSE IF M._military_state = MILITARY_STATE.CHARGE THEN
        IF h.turn >= M._military_charge_end_turn[1]
        THEN [mil |-> [M EXCEPT !._military_state = MILITARY_STATE.HOLD], action |-> Null,
              thrown |-> FALSE]
        ELSE [mil |-> M, action |-> Some([kind |-> "charge", to |-> M._military_charge_direction[1]]),
              thrown |-> FALSE]
    ELSE [mil |-> M, action |-> Null, thrown |-> FALSE]

\* turnMilitary(): the fields afterwards, the action returned, thrown if
\* an error left the turn
turnMilitary(M, h) ==
    LET r == militaryHandleRadio(M, h, 1)
    IN IF r.thrown THEN [mil |-> r.mil, action |-> Null, thrown |-> TRUE]
       ELSE militaryAct(r.mil, h)

\* the robot next to the unit: a castle of its team, an enemy pilgrim, or
\* a robot out of sight that the world knowledge has as own or not at all
MilSenders ==
    {[team |-> 0, unit |-> CASTLE, visible |-> TRUE, known |-> TRUE],
     [team |-> 1, unit |-> PILGRIM, visible |-> TRUE, known |-> FALSE],
     [team |-> Undefined, unit |-> Undefined, visible |-> FALSE, known |-> TRUE],
     [team |-> Undefined, unit |-> Undefined, visible |-> FALSE, known |-> FALSE]}

\* this.fuel
MilFuels == {0, 300}

IdleMil ==
    /\ mil = Null
    /\ mil_turn = 0
    /\ milSender = Null
    /\ milHeard = NotRadioing
    /\ milOutcome = Null
    /\ milTwins = {}

\* onBirth() of a military unit, lines 2044-2047, the home structure at
\* (0,0)
InitMil ==
    /\ mil = [_military_state |-> MILITARY_STATE.HOLD,
              _military_targets |-> <<mirror(0, 0, HoldSide)>>,
              _military_hold_turn |-> Null,
              _military_charge_direction |-> Null,
              _military_charge_stuck_counter |-> Null,
              _military_charge_end_turn |-> Null]
    /\ mil_turn = 0
    /\ milSender \in MilSenders
    /\ milHeard = NotRadioing
    /\ milOutcome = Null
    /\ milTwins = {}

\* what the host gives the unit in a turn
milTurn(sig, fl) ==
    [turn |-> mil_turn + 1, fuel |-> fl, side |-> HoldSide, time |-> 100, busy |-> FALSE,
     robots |-> milRobots(milSender, sig)]

\* turnMilitary() in the next turn of the unit
TurnMilitary ==
    /\ mil_turn < LastMilTurn
    /\ \E sig \in MilSignals \cup {NotRadioing}, fl \in MilFuels :
          \E turns \in {[s \in MilSignals \cup {NotRadioing} |->
                            turnMilitary(mil, milTurn(s, fl))] @@ <<>>} :
             /\ mil' = turns[sig].mil
             /\ milOutcome' = Some([action |-> turns[sig].action, thrown |-> turns[sig].thrown])
             /\ milHeard' = sig
             /\ milTwins' = IF sig = NotRadioing THEN {}
                            ELSE {turns[other] : other \in MilSignals \ {sig}}
    /\ mil_turn' = mil_turn + 1
    /\ op' = "turnMilitary"
    /\ ret' = "value"
    /\ UNCHANGED <<milSender, pre, msgVars, bitVars, wkVars, pqVars, rdVars, fpVars, navVars,
                   ctVars, tnVars, cvVars, sgVars, ptVars, tailVars>>

\* ---------------------------------------------------------------------
\* The castle negotiating the leadership (src/robot.js)
\* ---------------------------------------------------------------------
CASTLE_STATE == [NEGOTIATE_MASTER |-> 0, RUSH |-> 1, HOLD |-> 2, AWAIT_RUSH |-> 3]

\* schierDistance(x1, y1, x2, y2), in halves of a tile
schierDistance(x1, y1, x2, y2) ==
    LET xdiff == IF x1 >= x2 THEN x1 - x2 ELSE x2 - x1
        ydiff == IF y1 >= y2 THEN y1 - y2 ELSE y2 - y1
        hi == IF xdiff >= ydiff THEN xdiff ELSE ydiff
        lo == IF xdiff >= ydiff THEN ydiff ELSE xdiff
    IN (hi - lo) * 3 + lo * 2

\* the first castle of the list that is closest to an enemy castle, "bias
\* by id to resolve consistently": the distance is a multiple of a half
\* and id / 10000 is less than a half
bestCastle(castles, side) ==
    LET eCastles == [i \in 1..Len(castles) |-> mirror(castles[i].x, castles[i].y, side)]
        least(i) ==
            CHOOSE d \in {schierDistance(castles[i].x, castles[i].y, eCastles[j][1], eCastles[j][2]) :
                             j \in 1..Len(eCastles)} :
                \A j \in 1..Len(eCastles) :
                    d <= schierDistance(castles[i].x, castles[i].y, eCastles[j][1], eCastles[j][2])
        key(i) == least(i) * 10000 + castles[i].id * 2
    IN castles[CHOOSE i \in 1..Len(castles) : \A j \in 1..Len(castles) : key(i) <= key(j)]

\* castleAllCastlesKnown(): the state it assigns, lines 2648-2659
castleAllCastlesKnown(castles, id, rushMax, side) ==
    IF rushMax >= Len(castles)
    THEN IF bestCastle(castles, side).id = id THEN CASTLE_STATE.RUSH ELSE CASTLE_STATE.AWAIT_RUSH
    ELSE CASTLE_STATE.HOLD

\* line 3120: the turn in which the negotiation ends when it did not in
\* the first
negotiationDue(t) == t = 3

\* turnCastle(), lines 3108-3125: the negotiation
negotiate(N, h) ==
    LET known == [N EXCEPT !.known = TRUE,
                           !.state = castleAllCastlesKnown(h.castles, 1, h.rushMax, h.side)]
    IN IF N.state # CASTLE_STATE.NEGOTIATE_MASTER THEN N
       ELSE IF h.turn = 1 THEN (IF h.seen = 1 THEN known ELSE N)
       ELSE IF negotiationDue(h.turn) /\ ~N.known THEN known
       ELSE N

\* turnCastle(): the negotiation, the rush, the attack, the defence, the
\* wait for a rushing castle, and then castleFindBestExpansion(), which
\* returns null at once in the negotiation (lines 1867-1871)
turnCastle(N, h) ==
    LET N1 == negotiate(N, h)
    IN IF N1.state = CASTLE_STATE.RUSH
       THEN [N1 EXCEPT !.state = IF h.completedRush THEN CASTLE_STATE.HOLD ELSE @]
       ELSE IF h.branch \in {"attack", "defend"} THEN N1
       ELSE IF h.turn < 9 /\ N1.state = CASTLE_STATE.AWAIT_RUSH THEN N1
       ELSE [N1 EXCEPT !.refused = Some(N1.state = CASTLE_STATE.NEGOTIATE_MASTER)]

\* the castles of the team on a map of side HoldSide: this castle alone,
\* or with one or two more
NegCastles ==
    LET self == [id |-> 1, x |-> 0, y |-> 0]
        near == [id |-> 2, x |-> 3, y |-> 1]
        far == [id |-> 3, x |-> 2, y |-> 0]
    IN {<<self>>, <<self, near>>, <<self, far>>, <<self, near, far>>}

\* the strategies of lines 88-135
RushMaxCastles == {0, 3}

IdleNeg ==
    /\ _wl_castle_state = Null
    /\ castles_known = FALSE
    /\ castle_turn = 0
    /\ negCastles = <<>>
    /\ RUSH_MAX_CASTLES = 0
    /\ negFirstSeen = Null
    /\ negRefused = Null
    /\ negReached = FALSE

\* a castle the host has constructed
InitNeg ==
    /\ _wl_castle_state = Null
    /\ castles_known = FALSE
    /\ castle_turn = 0
    /\ negCastles \in NegCastles
    /\ RUSH_MAX_CASTLES \in RushMaxCastles
    /\ negFirstSeen = Null
    /\ negRefused = Null
    /\ negReached = FALSE

\* the castle at the entry of turnCastle(): onBirth() has run in turn 1
\* (line 2071)
negCastle(t) ==
    [state |-> IF t = 1 THEN CASTLE_STATE.NEGOTIATE_MASTER ELSE _wl_castle_state[1],
     known |-> castles_known, refused |-> Null]

\* what is left of the step of a castle to the other components
negStep(name) ==
    /\ castle_turn' = castle_turn + 1
    /\ op' = name
    /\ ret' = "none"
    /\ UNCHANGED <<negCastles, RUSH_MAX_CASTLES, pre, msgVars, bitVars, wkVars, pqVars, rdVars,
                   fpVars, navVars, ctVars, tnVars, cvVars, sgVars, ptVars, mlVars, orVars>>

\* turn() of a castle that reaches turnCastle().  In turn 1 the world
\* knowledge holds the castles reported, later every castle of the team
CastleTurn ==
    /\ castle_turn < LastCastleTurn
    /\ \E seen \in 1..MaxSeen, branch \in {"attack", "defend", "macro"}, completedRush \in BOOLEAN :
          /\ castle_turn = 0 => seen \in {1} \cup (Len(negCastles)..MaxSeen)
          /\ castle_turn = 0 /\ seen = 1 => Len(negCastles) = 1
          /\ castle_turn # 0 => seen = MaxSeen
          /\ \E N \in {turnCastle(negCastle(castle_turn + 1),
                                  [turn |-> castle_turn + 1, seen |-> seen, castles |-> negCastles,
                                   rushMax |-> RUSH_MAX_CASTLES, side |-> HoldSide,
                                   branch |-> branch, completedRush |-> completedRush])} :
                /\ _wl_castle_state' = Some(N.state)
                /\ castles_known' = N.known
                /\ negRefused' = N.refused
          /\ negFirstSeen' = IF castle_turn = 0 THEN Some(seen) ELSE negFirstSeen
    /\ negReached' = TRUE
    /\ negStep("turnCastle")

\* turn() of a castle that is left before turnCastle(): a statement before
\* it raises (updateFromPerception, line 3987) or the host stops the turn
\* on its clock.  onBirth() has run in turn 1
CastleTurnCut ==
    /\ castle_turn < LastCastleTurn
    /\ _wl_castle_state' = Some(negCastle(castle_turn + 1).state)
    /\ \E seen \in 1..MaxSeen :
          /\ castle_turn = 0 => seen \in {1} \cup (Len(negCastles)..MaxSeen)
          /\ castle_turn = 0 /\ seen = 1 => Len(negCastles) = 1
          /\ castle_turn # 0 => seen = MaxSeen
          /\ negFirstSeen' = IF castle_turn = 0 THEN Some(seen) ELSE negFirstSeen
    /\ negRefused' = Null
    /\ negReached' = FALSE
    /\ UNCHANGED castles_known
    /\ negStep("turnCut")

\* ---------------------------------------------------------------------
\* The attack order of a castle, its parts sent one a turn, and a military
\* unit that hears them (src/robot.js)
\* ---------------------------------------------------------------------
\* eCastles.sort(descending by schierDistance to the castle at (x, y)),
\* then "if we have target, push it" (lines 2769-2774)
attackOrder(eCastles, x, y, target) ==
    LET far(i) == schierDistance(eCastles[i][1], eCastles[i][2], x, y)
        rank(i) == 1 + Cardinality({j \in 1..Len(eCastles) :
                                       far(j) > far(i) \/ (far(j) = far(i) /\ j < i)})
        sorted == [k \in 1..Len(eCastles) |-> eCastles[CHOOSE i \in 1..Len(eCastles) : rank(i) = k]]
    IN IF target = Null THEN sorted ELSE Append(sorted, target[1])

\* the enemy castles of a strategy: the mirror images of this castle at
\* (0,0) and of up to two more on a map of side OrderSide, in any order
EnemyCastles ==
    {<<<<0, 7>>>>, <<<<0, 7>>, <<3, 6>>>>, <<<<3, 6>>, <<0, 7>>>>, <<<<2, 7>>, <<0, 7>>>>,
     <<<<0, 7>>, <<3, 6>>, <<2, 7>>>>, <<<<3, 6>>, <<2, 7>>, <<0, 7>>>>,
     <<<<2, 7>>, <<0, 7>>, <<3, 6>>>>}

\* the expansion an attack is ordered for, if any
AttackTargets == {Null, Some(<<4, 4>>)}

\* the tiles the unit may stand on
UnitTiles == {<<1, 1>>, <<4, 4>>, <<0, 7>>, <<3, 6>>}

\* the fields of the unit before the order: as onBirth() leaves them, and
\* after target messages heard before
UnitsBefore ==
    {[_military_state |-> st, _military_targets |-> ts, _military_hold_turn |-> Null,
      _military_charge_direction |-> Null, _military_charge_stuck_counter |-> Null,
      _military_charge_end_turn |-> Null] :
        st \in {MILITARY_STATE.HOLD}, ts \in {<<mirror(0, 0, OrderSide)>>}}
    \cup
    {[_military_state |-> st, _military_targets |-> ts, _military_hold_turn |-> Null,
      _military_charge_direction |-> Null, _military_charge_stuck_counter |-> Null,
      _military_charge_end_turn |-> Null] :
        st \in {MILITARY_STATE.TARGET_TARGETS}, ts \in {<<<<5, 5>>, <<3, 6>>>>}}

IdleOrder ==
    /\ orOrder = <<>>
    /\ orHeld = <<>>
    /\ orPos = <<0, 0>>
    /\ orAir = NotRadioing
    /\ orReceived = 0
    /\ orDropped = <<>>
    /\ orAfter = Null

\* a castle at (0,0) that has given no order, and a unit of its team
InitOrder ==
    /\ orOrder = <<>>
    /\ orHeld = <<>>
    /\ orPos \in UnitTiles
    /\ orAir = NotRadioing
    /\ orReceived = 0
    /\ orDropped = <<>>
    /\ orAfter = Null
    /\ mil \in UnitsBefore
    /\ mil_turn = 0
    /\ milSender = Null
    /\ milHeard = NotRadioing
    /\ milOutcome = Null
    /\ milTwins = {}

\* getVisibleRobots() of the unit: itself and the castle, which signals sig
orderRobots(sig) ==
    <<[id |-> 1, x |-> orPos[1], y |-> orPos[2], team |-> 0, unit |-> PROPHET, visible |-> TRUE,
       known |-> TRUE, signal |-> NotRadioing, msg |-> Null],
      [id |-> 2, x |-> 0, y |-> 0, team |-> 0, unit |-> CASTLE, visible |-> TRUE,
       known |-> TRUE, signal |-> sig, msg |-> decodedSignal(sig)]>>

\* what is left of a step of the castle to the other components
castleStep(name) ==
    /\ op' = name
    /\ UNCHANGED <<_util_ct_prio, _util_ct_msg, talked, pre, bitVars, wkVars, pqVars, rdVars,
                   fpVars, navVars, ctVars, tnVars, sgVars, ptVars, mlVars, ngVars,
                   orPos, orReceived, orDropped, orAfter>>

\* castleOrderAllAttack(fuelReserve, target) of the castle, every unit of
\* the team in the radius
OrderAllAttack ==
    /\ orOrder = <<>>
    /\ \E eCastles \in EnemyCastles, target \in AttackTargets :
          \E order \in {attackOrder(eCastles, 0, 0, target)} :
             \E S \in {castleOrderAllAttack(routine, 1, order, 64)} :
                /\ _util_rd_prio' = S.box.rd_prio
                /\ _util_rd_msg' = S.box.rd_msg
                /\ _util_rd_radiusSq' = S.box.rd_radiusSq
                /\ ctl' = S.ctl
                /\ setReturned' = S.won
                /\ ret' = S.ret
                /\ orOrder' = order
    /\ orHeld' = mil._military_targets
    /\ UNCHANGED <<signalled, orAir>>
    /\ castleStep("castleOrderAllAttack")

\* the end of a turn of the castle: radioSendMessage() sends the next part
CastleSends ==
    /\ orOrder # <<>>
    /\ orAir = NotRadioing
    /\ _util_rd_msg # Null /\ _util_rd_msg # Some(<<>>)
    /\ \E B \in {radioSend(box)} :
          /\ _util_rd_prio' = B.rd_prio
          /\ _util_rd_msg' = B.rd_msg
          /\ signalled' = B.signalled
          /\ orAir' = B.signalled[1][1]
    /\ ret' = "void"
    /\ UNCHANGED <<_util_rd_radiusSq, cvVars, orOrder, orHeld>>
    /\ castleStep("radioSendMessage")

\* turnMilitary() of the unit in the turn after: it sees the signal
UnitTurn ==
    /\ orAir # NotRadioing
    /\ \E time \in {20, 100}, busy \in BOOLEAN :
          \E h \in {[turn |-> mil_turn + 2, fuel |-> 300, side |-> OrderSide, time |-> time,
                     busy |-> busy, robots |-> orderRobots(orAir)]} :
             \E R \in {turnMilitary(mil, h)}, A \in {militaryHandleRadio(mil, h, 1).mil} :
                /\ mil' = R.mil
                /\ milOutcome' = Some([action |-> R.action, thrown |-> R.thrown])
                /\ orAfter' = Some(A)
                /\ orDropped' = IF Len(R.mil._military_targets) < Len(A._military_targets)
                                THEN Append(orDropped, A._military_targets[1])
                                ELSE orDropped
    /\ milHeard' = orAir
    /\ mil_turn' = mil_turn + 1
    /\ orAir' = NotRadioing
    /\ orReceived' = orReceived + 1
    /\ op' = "turnMilitary"
    /\ ret' = "value"
    /\ UNCHANGED <<milSender, milTwins, orOrder, orHeld, orPos, pre, msgVars, bitVars, wkVars,
                   pqVars, rdVars, fpVars, navVars, ctVars, tnVars, cvVars, sgVars, ptVars, ngVars>>

IdleTail == IdleNeg /\ IdleOrder
IdleLate == IdleGrid /\ IdlePos /\ IdleMil /\ IdleTail
IdleRest == IdleTalk /\ IdleTurn /\ IdleCtl /\ IdleLate

IdleExt == IdlePQ /\ IdleRadio /\ IdleFind /\ IdleNav /\ IdleRest

\* ---------------------------------------------------------------------
\* Specifications
\* ---------------------------------------------------------------------
InitM == InitMsg /\ IdleBits /\ IdleWK /\ IdleExt /\ InitOp
NextMsg == RadioSet \/ RadioSend \/ CastleTalkSet \/ CastleTalkSend
SpecMsg == InitM /\ [][NextMsg]_vars

InitB == InitBits /\ InitMsg /\ IdleWK /\ IdleExt /\ InitOp
NextBits == Encode \/ Decode
SpecBits == InitB /\ [][NextBits]_vars

\* the calls on a world knowledge whose observer perceives nothing
InitW ==
    /\ InitWK /\ me.unit = PILGRIM
    /\ _util_wk_terminate_cb = "noop" /\ _util_wk_initial_cb = "noop"
    /\ InitMsg /\ IdleBits /\ IdleExt /\ InitOp
NextWK ==
    \/ InitialSighting
    \/ UpdatePosition
    \/ MarkTerminated
    \/ SetTerminateCallback
    \/ UpdateFromEmptyPerception
SpecWK == InitW /\ [][NextWK]_vars

\* updateWorldKnowledgeForAttack(): the damage of one attack is recorded on
\* a robot (the recorded damage is capped)
ApplyDamage ==
    \E id \in Called :
        /\ IF _util_known_bots[id] = Null THEN TRUE
           ELSE _util_known_bots[id][1].damage + ATTACK_DAMAGE <= MaxDamage
        /\ becomes(applyDamage(this, id, ATTACK_DAMAGE), "applyDamage")
        /\ UNCHANGED me_turn

\* the calls on a world knowledge that name one robot, damage included
NextWKD ==
    \/ InitialSighting
    \/ UpdatePosition
    \/ MarkTerminated
    \/ ApplyDamage
SpecWKD == InitW /\ [][NextWKD]_vars

\* the routines that order by radio, in the turns of a structure, of a
\* crusader and of a pilgrim
InitC ==
    /\ _util_known_bots = [id \in Ids |-> Null]
    /\ _util_known_structures = <<>>
    /\ _util_wk_terminate_cb = "noop" /\ _util_wk_initial_cb = "noop"
    /\ me \in [unit : {CASTLE, CHURCH, CRUSADER, PILGRIM}, team : {0}]
    /\ me_turn = 1
    /\ cb_calls = <<>> /\ log = <<>>
    /\ IdleCtl /\ IdleTalk /\ IdleTurn /\ IdleLate
    /\ IdlePQ /\ IdleRadio /\ IdleFind /\ IdleNav /\ InitMsg /\ IdleBits /\ InitOp
NextCtl ==
    \/ StructureBuildMiner
    \/ StructureBuildLattice
    \/ CastleExpandAgressively
    \/ CastleOrderAllAttack
    \/ MilitaryLeadCharge
    \/ StructureCheckCharge
    \/ Repulse
    \/ StructureDefend
    \/ EndTurn
SpecCtl == InitC /\ [][NextCtl]_vars

\* the calls on a strategy
InitS ==
    /\ InitGrid /\ IdlePos /\ IdleMil /\ IdleTail /\ IdleTalk /\ IdleTurn /\ IdleCtl
    /\ IdlePQ /\ IdleRadio /\ IdleFind /\ IdleNav /\ InitMsg /\ IdleBits /\ IdleWK /\ InitOp
NextGrid == ToGrid \/ MarkDangerous \/ GetDanger \/ UpdateFriendly
SpecGrid == InitS /\ [][NextGrid]_vars

\* a robot reporting its position and a castle hearing it
InitReport ==
    /\ InitPos /\ IdleGrid /\ IdleMil /\ IdleTail /\ IdleTalk /\ IdleTurn /\ IdleCtl
    /\ IdlePQ /\ IdleRadio /\ IdleFind /\ IdleNav /\ InitMsg /\ IdleBits /\ IdleWK /\ InitOp
NextPos == SenderTurn \/ SenderTurnRaising \/ CastleUpdateFromCastleTalk
SpecPos == InitReport /\ [][NextPos]_vars

\* a military unit hearing the robot next to it
InitHold ==
    /\ InitMil /\ IdleGrid /\ IdlePos /\ IdleTail /\ IdleTalk /\ IdleTurn /\ IdleCtl
    /\ IdlePQ /\ IdleRadio /\ IdleFind /\ IdleNav /\ InitMsg /\ IdleBits /\ IdleWK /\ InitOp
NextMil == TurnMilitary
SpecMil == InitHold /\ [][NextMil]_vars

\* the turns of a castle, from its birth
InitLead ==
    /\ InitNeg /\ IdleOrder /\ IdleGrid /\ IdlePos /\ IdleMil /\ IdleTalk /\ IdleTurn /\ IdleCtl
    /\ IdlePQ /\ IdleRadio /\ IdleFind /\ IdleNav /\ InitMsg /\ IdleBits /\ IdleWK /\ InitOp
NextNeg == CastleTurn \/ CastleTurnCut
SpecNeg == InitLead /\ [][NextNeg]_vars

\* a castle ordering the attack and a military unit in its radius
InitAttack ==
    /\ InitOrder /\ IdleNeg /\ IdleGrid /\ IdlePos /\ IdleTalk /\ IdleTurn /\ IdleCtl
    /\ IdlePQ /\ IdleRadio /\ IdleFind /\ IdleNav /\ InitMsg /\ IdleBits /\ IdleWK /\ InitOp
NextOrder == OrderAllAttack \/ CastleSends \/ UnitTurn
SpecOrder == InitAttack /\ [][NextOrder]_vars

\* the calls on a priority queue
InitQ == IdlePQ /\ IdleRadio /\ IdleFind /\ IdleNav /\ IdleRest /\ InitMsg /\ IdleBits /\ IdleWK /\ InitOp
NextPQ == Enqueue \/ Dequeue
SpecPQ == InitQ /\ [][NextPQ]_vars

\* the radio codec on the messages of the team
InitR == InitRadio /\ IdlePQ /\ IdleFind /\ IdleNav /\ IdleRest /\ InitMsg /\ IdleBits /\ IdleWK /\ InitOp
NextRadio == EncodeRadio \/ DecodeRadio
SpecRadio == InitR /\ [][NextRadio]_vars

\* the radio codec on any signal heard
InitH == InitHeard /\ IdlePQ /\ IdleFind /\ IdleNav /\ IdleRest /\ InitMsg /\ IdleBits /\ IdleWK /\ InitOp
NextHeard == DecodeRadio
SpecHeard == InitH /\ [][NextHeard]_vars

\* the calls of findPath, stepped through its loop
InitF == InitFind /\ IdlePQ /\ IdleRadio /\ IdleNav /\ IdleRest /\ InitMsg /\ IdleBits /\ IdleWK /\ InitOp
NextFind == Begin \/ Iterate \/ Exhausted
SpecFind == InitF /\ [][NextFind]_vars

\* the steps of a findPath call in mapping mode
InitScores ==
    /\ MappingCall /\ InitLocals
    /\ IdlePQ /\ IdleRadio /\ IdleNav /\ IdleRest /\ InitMsg /\ IdleBits /\ IdleWK /\ InitOp
SpecMap == InitScores /\ [][NextFind]_vars

\* the turns of a robot that navigates
InitN == InitNav /\ IdlePQ /\ IdleRadio /\ IdleRest /\ InitMsg /\ IdleBits /\ IdleWK /\ InitOp
NextNav == Turn \/ NavigationMove
SpecNav == InitN /\ [][NextNav]_vars

\* the castle talk codec on any value heard
InitT ==
    /\ InitTalk /\ IdleTurn /\ IdleCtl /\ IdleLate /\ IdlePQ /\ IdleRadio /\ IdleFind /\ IdleNav
    /\ InitMsg /\ IdleBits /\ IdleWK /\ InitOp
NextTalk == DecryptCastleTalk
SpecTalk == InitT /\ [][NextTalk]_vars

\* the turns of a robot, from its birth
InitU ==
    /\ InitWK /\ onBirth
    /\ IdleTurn /\ IdleTalk /\ IdleCtl /\ IdleLate /\ IdlePQ /\ IdleRadio /\ IdleFind /\ IdleNav
    /\ InitMsg /\ IdleBits /\ InitOp
NextTurn == RobotTurn \/ Overrun
SpecTurn == InitU /\ [][NextTurn]_vars

\* the world knowledge of a robot in play: the perception of every turn
\* and, in a castle, the castle talk it hears
InitP == InitWK /\ onBirth /\ InitMsg /\ IdleBits /\ IdleExt /\ InitOp
NextWKP ==
    \/ UpdateFromPerception
    \/ CastleTalkIdent
    \/ CastleTalkPosition
SpecWKP == InitP /\ [][NextWKP]_vars

\* ---------------------------------------------------------------------
\* Properties of the outboxes
\* ---------------------------------------------------------------------

\* C1: a set call on either channel replaces the pending message and
\* returns true exactly when no priority is registered or the given
\* priority is strictly greater than the registered one; otherwise it
\* returns false and leaves priority, payload and radius unchanged.
C1_Arbitration ==
    [][ /\ \A p \in RadioPrios, m \in MsgArgs, r \in RadiusVals :
             op' = "radioSetEventMessage" /\ radioSetEventMessage(p, m, r) =>
               IF _util_rd_prio = Null \/ p > _util_rd_prio[1]
               THEN /\ ret' = "true"
                    /\ _util_rd_prio' = <<p>>
                    /\ _util_rd_msg' = <<IF m.isArray THEN m.val ELSE <<m.val>> >>
                    /\ _util_rd_radiusSq' = <<r>>
               ELSE /\ ret' = "false"
                    /\ UNCHANGED <<_util_rd_prio, _util_rd_msg, _util_rd_radiusSq>>
        /\ \A p \in CastleTalkPrios, m \in MsgArgs :
             op' = "castleTalkSetEventMessage" /\ castleTalkSetEventMessage(p, m) =>
               IF _util_ct_prio = Null \/ p > _util_ct_prio[1]
               THEN /\ ret' = "true"
                    /\ _util_ct_prio' = <<p>>
                    /\ _util_ct_msg' = <<IF m.isArray THEN m.val ELSE <<m.val>> >>
               ELSE /\ ret' = "false"
                    /\ UNCHANGED <<_util_ct_prio, _util_ct_msg>>
      ]_vars

\* a pending radio message was replaced by one of strictly greater priority
C1_Witness ==
    /\ op = "radioSetEventMessage"
    /\ ret = "true"
    /\ pre # Null
    /\ _util_rd_prio[1] > pre[1]

\* C2: a send with a non-empty pending payload transmits exactly the first
\* part, removes it and empties the priority register exactly when no part
\* remains (any priority then wins arbitration); with no pending part it
\* transmits nothing and changes nothing.
C2_Drain ==
    [][ /\ radioSendMessage =>
             IF _util_rd_msg # Null /\ _util_rd_msg[1] # <<>>
             THEN /\ signalled' = << <<Head(_util_rd_msg[1]), _util_rd_radiusSq>> >>
                  /\ _util_rd_msg' = <<Tail(_util_rd_msg[1])>>
                  /\ (_util_rd_prio' = Null) <=> (Len(_util_rd_msg[1]) = 1)
                  /\ _util_rd_prio' # Null => _util_rd_prio' = _util_rd_prio
                  /\ _util_rd_prio' = Null =>
                        \A p \in RadioPrios : ~loses(_util_rd_prio', p)
             ELSE /\ signalled' = <<>>
                  /\ UNCHANGED <<_util_rd_prio, _util_rd_msg, _util_rd_radiusSq>>
        /\ castleTalkSendMessage =>
             IF _util_ct_msg # Null /\ _util_ct_msg[1] # <<>>
             THEN /\ talked' = <<Head(_util_ct_msg[1])>>
                  /\ _util_ct_msg' = <<Tail(_util_ct_msg[1])>>
                  /\ (_util_ct_prio' = Null) <=> (Len(_util_ct_msg[1]) = 1)
                  /\ _util_ct_prio' # Null => _util_ct_prio' = _util_ct_prio
                  /\ _util_ct_prio' = Null =>
                        \A p \in CastleTalkPrios : ~loses(_util_ct_prio', p)
             ELSE /\ talked' = <<>>
                  /\ UNCHANGED <<_util_ct_prio, _util_ct_msg>>
      ]_vars

\* the last part of a castle talk message was transmitted and the register reset
C2_Witness ==
    /\ op = "castleTalkSendMessage"
    /\ talked # <<>>
    /\ pre # Null
    /\ _util_ct_msg = <<<<>>>>
    /\ _util_ct_prio = Null

\* ---------------------------------------------------------------------
\* Properties of the bit codec
\* ---------------------------------------------------------------------
\* 0 <= values[i] < 2^widths[i] for lists of the same length
InBounds(cs, pat) ==
    /\ Len(cs) = Len(pat)
    /\ \A i \in 1..Len(cs) : ~cs[i].frac /\ 0 <= cs[i].n /\ cs[i].n < 2^(pat[i])

\* the lists differ in length, or a value is negative, not an integer or
\* greater than 2^width - 1
BadInput(cs, pat) ==
    \/ Len(cs) # Len(pat)
    \/ \E i \in 1..Len(cs) : cs[i].frac \/ cs[i].n < 0 \/ cs[i].n > 2^(pat[i]) - 1

RECURSIVE offset(_, _)
offset(pat, i) == IF i >= Len(pat) THEN 0 ELSE pat[i + 1] + offset(pat, i + 1)

\* every bit of every value is present at its place in the integer val
Retained(cs, pat, val) ==
    \A i \in 1..Len(pat) : \A b \in 0..(pat[i] - 1) :
        (cs[i].n \div (2^b)) % 2 =
            (IF offset(pat, i) + b <= 31 THEN Bit(val, offset(pat, i) + b) ELSE 0)

\* C3: for values within their widths, decodeBits(encodeBits(values,
\* widths), widths) returns a list equal to values.
C3_RoundTrip ==
    InBounds(contents, pattern) =>
        /\ encoded # Null => ~encoded[1].thrown
        /\ decoded # Null => decoded[1] = [i \in 1..Len(contents) |-> contents[i].n]

\* C4: encodeBits raises an error whenever the input is bad, and an integer
\* it returns holds every value untruncated.
C4_EncodeRaisesNeverTruncates ==
    encoded # Null =>
        /\ BadInput(contents, pattern) => encoded[1].thrown
        /\ ~encoded[1].thrown => Retained(contents, pattern, encoded[1].val)

\* ---------------------------------------------------------------------
\* Properties of the world knowledge
\* ---------------------------------------------------------------------
\* the record stored under id, Null if there is none
findById(id) == _util_known_bots[id]

\* C5: a sighting of a known id with the same team and unit changes
\* nothing; with a differing team or unit it changes nothing unless it is
\* trusted, and a trusted one replaces the record by a fresh one of the
\* reported team and unit.
C5_SightingIdentity ==
    [][ op' = "initialSighting" =>
          \A id \in Ids, team \in Teams, unit \in Units, trueVision \in BOOLEAN :
             ( /\ findById(id) # Null
               /\ becomes(initialSighting(this, id, team, unit, trueVision),
                          "initialSighting") ) =>
                IF findById(id)[1].team = team /\ findById(id)[1].unit = unit
                THEN /\ UNCHANGED <<_util_known_bots, _util_known_structures>>
                     /\ cb_calls' = <<>>
                ELSE IF ~trueVision
                THEN /\ UNCHANGED <<_util_known_bots, _util_known_structures>>
                     /\ cb_calls' = <<>>
                ELSE /\ _util_known_bots'[id] = Some(newRecord(id, team, unit))
                     /\ \A j \in Ids \ {id} : _util_known_bots'[j] = findById(j)
      ]_vars

\* a trusted sighting has replaced a record of another team
C5_Witness ==
    /\ op = "initialSighting"
    /\ ret = "created"
    /\ log = <<"change team", "true vision">>

\* C6: a position update of a known id changes nothing when the stored
\* position turn is not older than the given turn; the stored turn of a
\* record never decreases, and an accepted update stores the given turn.
C6_PositionTurnMonotone ==
    [][ op' = "updatePosition" =>
          \A id \in Ids, t \in Tiles, n \in 0..me_turn :
             ( /\ findById(id) # Null
               /\ becomes(updatePosition(this, id, t[1], t[2], n), "updatePosition") ) =>
                LET old == findById(id)[1].posUpdateTurn
                IN /\ _util_known_bots'[id] # Null
                   /\ (old # Undefined /\ old >= n) =>
                         UNCHANGED <<_util_known_bots, _util_known_structures>>
                   /\ old # Undefined =>
                         _util_known_bots'[id][1].posUpdateTurn >= old
                   /\ _util_known_bots'[id] # findById(id) =>
                         /\ _util_known_bots'[id][1].posUpdateTurn = n
                         /\ old # Undefined => n > old
      ]_vars

\* an update of a turn not newer than the stored one was dropped
C6_Witness ==
    /\ op = "updatePosition"
    /\ ret = "outdated"
    /\ \E id \in Ids : findById(id) # Null /\ findById(id)[1].posUpdateTurn >= 1

\* C7: the position of a castle or church, once set, is not changed by any
\* later position update: one with another position is rejected and leaves
\* the record as it is.
C7_StructuresStay ==
    [][ op' = "updatePosition" =>
          \A id \in Ids :
             ( /\ findById(id) # Null
               /\ findById(id)[1].unit < 2
               /\ findById(id)[1].x # Undefined ) =>
                /\ _util_known_bots'[id] # Null
                /\ _util_known_bots'[id][1].x = findById(id)[1].x
                /\ _util_known_bots'[id][1].y = findById(id)[1].y
                /\ \A t \in Tiles, n \in 0..me_turn :
                      ( /\ <<findById(id)[1].x, findById(id)[1].y>> # t
                        /\ becomes(updatePosition(this, id, t[1], t[2], n),
                                   "updatePosition") ) =>
                         /\ _util_known_bots'[id] = findById(id)
                         /\ UNCHANGED _util_known_structures
      ]_vars

\* a newer position update that would move a placed structure was rejected
C7_Witness ==
    /\ op = "updatePosition"
    /\ ret = "static"
    /\ log = <<"static structure", "cannot recover">>
    /\ \E id \in Ids : /\ findById(id) # Null
                       /\ findById(id)[1].unit < 2
                       /\ findById(id)[1].x # Undefined


\* C29: an operation on an id that is not known changes neither the entity
\* map nor the structure index, invokes no callback, and raises no error
\* (an error raised by the class leaves turn(), whose callers handle none):
\* updatePosition, applyDamage and markTerminated on a world knowledge that
\* knows none of the ids its callers name.
C29_UnknownIdHarmless ==
    [][ ( /\ op' \in {"updatePosition", "applyDamage", "markTerminated"}
          /\ \A id \in Called : _util_known_bots[id] = Null )
        => ( /\ _util_known_bots' = _util_known_bots
             /\ _util_known_structures' = _util_known_structures
             /\ cb_calls' = <<>>
             /\ ret' # "throw" ) ]_vars

\* the perception of f and seen is the step taken
perceived(f, seen) ==
    /\ Consistent(f)
    /\ \A t \in seen : ~(\E i \in Ids : f[i].x = t[1] /\ f[i].y = t[2])
    /\ becomes(updateFromPerception(this, owner(f, seen)), "updateFromPerception")

\* the record under id is a castle or church with a position
placed(id) ==
    /\ findById(id) # Null
    /\ findById(id)[1].unit < 2
    /\ findById(id)[1].x # Undefined

\* the terminate callback calls of a step that name id
terminations(calls, id) ==
    {k \in 1..Len(calls) : calls[k][1] = "terminate" /\ calls[k][3].id = id}

\* C8: after updateFromPerception every known structure whose tile is
\* visible and holds no robot or another robot is removed, the whole
\* structure index having been examined, and no structure whose tile is out
\* of sight is removed by this rule.
C8_StructureScan ==
    [][ op' = "updateFromPerception" =>
          \A f \in [Ids -> Reports], seen \in SUBSET Tiles :
             perceived(f, seen) =>
                /\ ret' # "throw"
                /\ \A id \in Ids :
                      LET at == getVisibleRobotMap(f, seen)
                                  [findById(id)[1].y][findById(id)[1].x]
                      IN /\ (placed(id) /\ f[id].kind # "visible" /\ at >= 0) =>
                               _util_known_bots'[id] = Null
                         /\ ( /\ placed(id)
                              /\ f[id].kind \in {"absent", "talk"}
                              /\ at = -1
                              /\ ~(me.unit = CASTLE /\ f[id].kind = "absent"
                                       /\ findById(id)[1].team = me.team) ) =>
                               _util_known_bots'[id] = findById(id)
      ]_vars

\* C9: after updateFromPerception of a castle no record of the castle's
\* team whose id the host did not report remains, each such record known
\* before having been terminated exactly once; a robot that is no castle
\* terminates no record for its absence from the report, and no record of
\* the other team is terminated for absence (a record without an entry in
\* the structure index is out of reach of the structure scan).
C9_CastleRollCall ==
    [][ op' = "updateFromPerception" =>
          \A f \in [Ids -> Reports], seen \in SUBSET Tiles :
             perceived(f, seen) =>
                \A id \in Ids :
                   /\ ( /\ me.unit = CASTLE
                        /\ f[id].kind = "absent"
                        /\ findById(id) # Null
                        /\ findById(id)[1].team = me.team ) =>
                          /\ _util_known_bots'[id] = Null
                          /\ Cardinality(terminations(cb_calls', id)) = 1
                   /\ ( /\ f[id].kind = "absent"
                        /\ findById(id) # Null
                        /\ me.unit # CASTLE \/ findById(id)[1].team # me.team
                        /\ \A k \in 1..Len(_util_known_structures) :
                              _util_known_structures[k].id # id ) =>
                          _util_known_bots'[id] = findById(id)
      ]_vars

\* C27: a record is created on the first sighting, by direct vision or by
\* radio triangulation: after updateFromPerception every robot reported in
\* the turn that is visible, or is not visible but radioing, is known.
C27_CreatedOnFirstSighting ==
    [][ op' = "updateFromPerception" =>
          \A f \in [Ids -> Reports], seen \in SUBSET Tiles :
             perceived(f, seen) =>
                \A id \in Ids :
                   f[id].kind \in {"visible", "radio"} => _util_known_bots'[id] # Null
      ]_vars

\* the record under id is a structure of the team and unit reported in r,
\* recorded at another position than the one reported
recordedElsewhere(id, r) ==
    /\ placed(id)
    /\ findById(id)[1].team = r.team
    /\ findById(id)[1].unit = r.unit
    /\ <<findById(id)[1].x, findById(id)[1].y>> # <<r.x, r.y>>

\* C28: after updateFromPerception every robot visible in the turn is known
\* with the team and unit observed (a conflicting earlier record is
\* overridden) and, unless it is a structure already recorded at another
\* position, at the position observed; a robot that is only radioing gets
\* at most a position update and never a change of identity.
C28_VisibleKnownAsObserved ==
    [][ op' = "updateFromPerception" =>
          \A f \in [Ids -> Reports], seen \in SUBSET Tiles :
             perceived(f, seen) =>
                \A id \in Ids :
                   /\ f[id].kind = "visible" =>
                         /\ _util_known_bots'[id] # Null
                         /\ _util_known_bots'[id][1].team = f[id].team
                         /\ _util_known_bots'[id][1].unit = f[id].unit
                         /\ ~recordedElsewhere(id, f[id]) =>
                               /\ _util_known_bots'[id][1].x = f[id].x
                               /\ _util_known_bots'[id][1].y = f[id].y
                   /\ f[id].kind = "radio" =>
                         /\ findById(id) = Null => _util_known_bots'[id] = Null
                         /\ (findById(id) # Null /\ _util_known_bots'[id] # Null) =>
                               /\ _util_known_bots'[id][1].team = findById(id)[1].team
                               /\ _util_known_bots'[id][1].unit = findById(id)[1].unit
      ]_vars

\* C32: the structure index holds no two entries of one id, and every
\* entry is the record stored in the entity map under its id, a castle or
\* a church with a recorded position; so the structure scan of
\* updateFromPerception never raises for an id that is not known.
C32_IndexSound ==
    /\ \A k \in 1..Len(_util_known_structures) :
          LET e == _util_known_structures[k]
          IN /\ e.live
             /\ findById(e.id) # Null
             /\ findById(e.id)[1].unit < 2
             /\ findById(e.id)[1].x # Undefined
             /\ findById(e.id)[1].x = e.x /\ findById(e.id)[1].y = e.y
             /\ \A j \in 1..Len(_util_known_structures) :
                   _util_known_structures[j].id = e.id => j = k
    /\ (op = "updateFromPerception" => ret # "throw")

\* the entries of a structure list that are id at x, y
entriesAt(structs, id, x, y) ==
    {k \in 1..Len(structs) :
        structs[k].id = id /\ structs[k].x = x /\ structs[k].y = y}

\* C10: markTerminated of a known id removes the record, calls the
\* terminate callback exactly once with the removed record and, when the
\* record is a structure with a position, removes exactly that record's
\* entry from the structure index, leaving every other entry in it.
C10_MarkTerminated ==
    [][ op' = "markTerminated" =>
          \A id \in Ids :
             ( /\ findById(id) # Null
               /\ becomes(markTerminated(this, id), "markTerminated") ) =>
                /\ _util_known_bots'[id] = Null
                /\ \A j \in Ids \ {id} : _util_known_bots'[j] = findById(j)
                /\ cb_calls' = << <<"terminate", _util_wk_terminate_cb, findById(id)[1]>> >>
                /\ \A j \in Ids, t \in Tiles :
                      Cardinality(entriesAt(_util_known_structures', j, t[1], t[2])) =
                         Cardinality(entriesAt(_util_known_structures, j, t[1], t[2]))
                           - (IF /\ j = id
                                 /\ placed(id)
                                 /\ <<findById(id)[1].x, findById(id)[1].y>> = t
                              THEN 1 ELSE 0)
      ]_vars


\* ---------------------------------------------------------------------
\* Properties of the priority queue
\* ---------------------------------------------------------------------
\* how often item stands in the heap array c
occurrences(c, item) == Cardinality({i \in 1..Len(c) : c[i] = item})

\* C17: a dequeue on a non-empty queue returns an element that is less than
\* or equal to every element of the queue under the comparator and removes
\* exactly that element: the contents afterwards are, as a multiset, the
\* contents before minus the returned element.
C17_DequeueMinimum ==
    [][ (op' = "dequeue" /\ _content # <<>>) =>
          /\ ret' = "value"
          /\ front' # Null
          /\ \A i \in 1..Len(_content) : comparator(front'[1], _content[i]) <= 0
          /\ \A item \in PQItems :
                occurrences(_content', item) =
                   occurrences(_content, item) - (IF item = front'[1] THEN 1 ELSE 0)
      ]_vars

\* a dequeue from a full queue returned an element smaller than one it left
C17_Witness ==
    /\ op = "dequeue"
    /\ ret = "value"
    /\ Len(_content) = MaxQueue - 1
    /\ \E i \in 1..Len(_content) : comparator(front[1], _content[i]) < 0

\* C18 as stated: for any interleaving of enqueue and dequeue, the elements
\* returned by the dequeues are non-decreasing under the comparator.
C18_NonDecreasing ==
    [][ (op' = "dequeue" /\ ret' = "value" /\ front # Null) =>
          comparator(front[1], front'[1]) <= 0
      ]_vars

\* C18 amended: a dequeue returns an element not smaller than the one the
\* dequeue before it returned, unless an element smaller than that one was
\* enqueued in between.
C18_NonDecreasingUnlessUndercut ==
    [][ (op' = "dequeue" /\ ret' = "value" /\ front # Null /\ ~undercut) =>
          comparator(front[1], front'[1]) <= 0
      ]_vars

\* two dequeues in a row of which the second returned a greater element,
\* with elements left in the queue
C18_Witness ==
    /\ op = "dequeue"
    /\ ret = "value"
    /\ before # Null
    /\ comparator(before[1], front[1]) < 0
    /\ _content # <<>>


\* ---------------------------------------------------------------------
\* Radio codec properties
\* ---------------------------------------------------------------------
\* C19: for every message kind and all field values within their widths,
\* encodeRadio yields an integer that fits in 16 bits and decodeRadio of
\* that integer yields a message of the same kind with the same fields.
C19_RadioRoundTrip ==
    (radioObj # Null /\ radioSignal # Null) =>
        /\ ~radioSignal[1].thrown
        /\ radioSignal[1].val \in Signals
        /\ radioDecoded # Null =>
              /\ ~radioDecoded[1].thrown
              /\ radioDecoded[1].val = radioObj[1]

\* C20: decodeRadio returns a message object without raising, for every
\* 16 bit integer, whatever its header, event sub-type or flag payload.
C20_DecodeNeverRaises ==
    (radioDecoded # Null) => ~radioDecoded[1].thrown

\* ---------------------------------------------------------------------
\* Castle talk codec properties
\* ---------------------------------------------------------------------
\* the header and the body of a castle talk value
talkHeader(n) == n \div 64
talkBody(n) == n % 64

\* the body is an event code: ident 1..6, clock request 7, alert 40..47
recognisedEvent(b) == (1 <= b /\ b <= 7) \/ (40 <= b /\ b <= 47)

\* C21: decryptCastleTalk never raises for any 8 bit value; a value whose
\* header is none of 0 (event), 1 (important), 2 (position), or whose event
\* body is no event code, decodes to the generic event with null content;
\* a value with header 3 is never decoded as ident, clock request or alert.
C21_TalkDecodeTolerant ==
    (talkDecoded # Null) =>
        LET n == castle_talk[1]
            d == talkDecoded[1]
        IN /\ ~d.thrown
           /\ (talkHeader(n) \notin {0, 1, 2}
                 \/ (talkHeader(n) = 0 /\ ~recognisedEvent(talkBody(n))))
                => d.val = [type |-> "event", content |-> Null]
           /\ talkHeader(n) = 3 => d.val.type \notin {"ident", "dbgClock", "alert"}

\* ---------------------------------------------------------------------
\* Properties of the turn
\* ---------------------------------------------------------------------
\* C23: no error raised inside a turn (by the role logic, the world
\* knowledge, the radio decoding, the checks of wrapAttack, encodeBits)
\* leaves turn(): it is caught and the turn returns no action.
C23_NoErrorLeavesTurn ==
    (op = "turn") => ~raised

\* the names of the steps executed, in their order
stepNames == [i \in 1..Len(steps) |-> steps[i].name]

\* C24: in a turn that follows a turn which did not complete (the turn is
\* not the first and the last completed turn is not the one before), turn()
\* returns no action and the role logic does not run.
C24_FrozenTurnInert ==
    (op = "turn" /\ _util_frozen) =>
        /\ turnAction = Null
        /\ \A i \in 1..Len(steps) : steps[i].name # "controller"

\* the steps named in S, in the order executed
only(S) == SelectSeq(stepNames, LAMBDA n : n \in S)

\* the last message that won the arbitration of a channel in the turn, the
\* set operations of the channel being those named in S: <<part>>, or <<>>
lastWinner(S) ==
    LET W == {i \in 1..Len(steps) : steps[i].name \in S /\ steps[i].won}
    IN IF W = {} THEN <<>>
       ELSE <<steps[CHOOSE i \in W : \A j \in W : j <= i].part>>

\* C26: in every turn the perception is followed by the role logic and its
\* enqueues, then by the position and alert enqueues, then by exactly one
\* send per channel; at most one integer is transmitted per channel, and a
\* message that won arbitration in the turn and was not replaced later in
\* the turn has its first part transmitted in the turn.
C26_TurnOrder ==
    (op = "turn") =>
        /\ only({"perception", "controller", "positionTalk", "castleTalkSend", "radioSend"})
              = <<"perception", "controller", "positionTalk", "castleTalkSend", "radioSend">>
        /\ \A i, j \in 1..Len(steps) :
              /\ (steps[i].name = "radioSet" /\ steps[j].name = "controller") => j < i
              /\ (steps[i].name = "radioSet" /\ steps[j].name = "positionTalk") => i < j
              /\ (steps[i].name = "alertTalk" /\ steps[j].name = "positionTalk") => j < i
              /\ (steps[i].name = "alertTalk" /\ steps[j].name = "castleTalkSend") => i < j
        /\ Len(signalled) <= 1
        /\ Len(talked) <= 1
        /\ lastWinner({"radioSet"}) # <<>> =>
              (signalled # <<>> /\ signalled[1][1] = lastWinner({"radioSet"})[1])
        /\ lastWinner({"onBirth", "positionTalk", "alertTalk"}) # <<>> =>
              talked = lastWinner({"onBirth", "positionTalk", "alertTalk"})

\* the priority a step of turn() enqueues its castle talk with
talkPrio(name) ==
    CASE name = "onBirth" -> CASTLETALK_PRIO.IDENT
      [] name = "alertTalk" -> CASTLETALK_PRIO.ALERT
      [] OTHER -> CASTLETALK_PRIO.POSITION

\* C33: a pending multi-part castle talk message is transmitted one part
\* per turn, in array order, on consecutive turns: in the turn after one
\* that left parts pending, either no enqueue wins, the first pending part
\* is the one transmitted and the parts after it stay pending at the same
\* priority, or the enqueues that win are of strictly higher priority and
\* the last winner's first part is the one transmitted.  The position
\* report of priority 0 displaces nothing.
C33_OutboxDrains ==
    [][(_util_ct_msg # Null /\ _util_ct_msg # Some(<<>>)) =>
          LET parts == _util_ct_msg[1]
              p == _util_ct_prio[1]
              sets == {i \in 1..Len(steps') :
                          steps'[i].name \in {"onBirth", "positionTalk", "alertTalk"}}
              winners == {i \in sets : steps'[i].won}
          IN /\ \A i \in sets : steps'[i].won <=> (talkPrio(steps'[i].name) > p)
             /\ \A i \in sets : steps'[i].name = "positionTalk" => ~steps'[i].won
             /\ winners = {} =>
                   /\ talked' = <<parts[1]>>
                   /\ _util_ct_msg' = Some(Tail(parts))
                   /\ _util_ct_prio' = IF Tail(parts) = <<>> THEN Null ELSE Some(p)
             /\ winners # {} =>
                   /\ Len(talked') = 1
                   /\ \E i \in winners : talked'[1] = steps'[i].part
       ]_vars

\* ---------------------------------------------------------------------
\* Properties of the attack order
\* ---------------------------------------------------------------------
\* s in reverse
reversed(s) == [i \in 1..Len(s) |-> s[Len(s) + 1 - i]]

\* the unit has handled every part of the order
orderHeard == orOrder # <<>> /\ orReceived = Len(orOrder)

\* no tile is twice in s
distinct(s) == \A i, j \in 1..Len(s) : s[i] = s[j] => i = j

\* the targets the unit removed in its turns before the last one
droppedBefore ==
    IF Len(mil._military_targets) < Len(orAfter[1]._military_targets)
    THEN SubSeq(orDropped, 1, Len(orDropped) - 1)
    ELSE orDropped

\* C37 as stated: when militaryHandleRadio of the unit has handled the
\* last part of the order, every part handled in its order, the unit is
\* in the target-list state and its list is the targets of the order, the
\* last transmitted first, with no tile twice and no tile of its former
\* list that the order does not name.
C37_OrderReplacesTargets ==
    orderHeard =>
        LET list == orAfter[1]._military_targets
        IN /\ orAfter[1]._military_state = MILITARY_STATE.TARGET_TARGETS
           /\ list = reversed(orOrder)
           /\ distinct(list)
           /\ \A i \in 1..Len(orHeld) :
                 (\E j \in 1..Len(list) : list[j] = orHeld[i])
                     => \E k \in 1..Len(orOrder) : orOrder[k] = orHeld[i]

\* C37, amended: when militaryHandleRadio of the unit has handled the last
\* part of the order, the unit is in the target-list state and its list is
\* the targets of the order, the last transmitted first, less the targets
\* the unit removed in its own turns between the parts (a target it cannot
\* move towards while a robot stands on it, lines 3504-3508); no tile is
\* twice in the list and none is of its former list unless the order
\* names it.
C37_OrderLessDropped ==
    orderHeard =>
        LET list == orAfter[1]._military_targets
            left == SelectSeq(orOrder,
                              LAMBDA t : \A i \in 1..Len(droppedBefore) : droppedBefore[i] # t)
        IN /\ orAfter[1]._military_state = MILITARY_STATE.TARGET_TARGETS
           /\ list = reversed(left)
           /\ distinct(list)
           /\ \A i \in 1..Len(orHeld) :
                 (\E j \in 1..Len(list) : list[j] = orHeld[i])
                     => \E k \in 1..Len(orOrder) : orOrder[k] = orHeld[i]

\* an order of four parts heard by a unit that held two other targets and
\* stands on the target of the first part: it removed that target in the
\* turn of the first part, the three others are in its list
C37_Witness ==
    /\ orderHeard
    /\ Len(orOrder) = 4
    /\ orHeld = <<<<5, 5>>, <<3, 6>>>>
    /\ droppedBefore = <<<<0, 7>>>>
    /\ orAfter[1]._military_targets = <<<<4, 4>>, <<3, 6>>, <<2, 7>>>>

\* ---------------------------------------------------------------------
\* Properties of the castle negotiating the leadership
\* ---------------------------------------------------------------------
\* C36: a castle is in the negotiation only during its turns 1 to 3: it
\* has left it after turn 1 when it was the only robot reported, otherwise
\* it is in it after turns 1 and 2 and has left it after turn 3, for the
\* rush, the wait for a rush or the hold; once out of it, it never is in
\* it again; and from turn 3 on castleFindBestExpansion is never refused
\* for the negotiation.
C36_NegotiationEnds ==
    /\ [](castle_turn >= 1 =>
            LET alone == negFirstSeen = Some(1)
                negotiating == _wl_castle_state = Some(CASTLE_STATE.NEGOTIATE_MASTER)
            IN /\ _wl_castle_state[1] \in {CASTLE_STATE.NEGOTIATE_MASTER, CASTLE_STATE.RUSH,
                                           CASTLE_STATE.HOLD, CASTLE_STATE.AWAIT_RUSH}
               /\ alone => ~negotiating
               /\ (~alone /\ castle_turn < 3) => negotiating
               /\ castle_turn >= 3 => ~negotiating
               /\ castle_turn >= 3 => negRefused # Some(TRUE))
    /\ [][(castle_turn >= 1 /\ _wl_castle_state # Some(CASTLE_STATE.NEGOTIATE_MASTER))
             => _wl_castle_state' # Some(CASTLE_STATE.NEGOTIATE_MASTER)]_vars

\* ---------------------------------------------------------------------
\* Properties of the military unit
\* ---------------------------------------------------------------------
\* the robot next to the unit is not trusted
untrusted == ~((milSender.visible /\ milSender.team = 0) \/ milSender.known)

\* C35: the signal of a sender that is not trusted has no influence on a
\* military unit: the turn under any other signal of that sender ends
\* with the same military state, targets, hold turn and charge data and
\* returns the same action.
C35_UntrustedIgnored ==
    (op = "turnMilitary" /\ untrusted) =>
        \A T \in milTwins :
            /\ T.mil = mil
            /\ T.action = milOutcome[1].action
            /\ T.thrown = milOutcome[1].thrown

\* ---------------------------------------------------------------------
\* Properties of the position report
\* ---------------------------------------------------------------------
\* C34: on a map of side 1 to 64 the castle talk parts enqueued for a
\* position on the map fit in 8 bits and are not zero; a castle that reads
\* the castle talk of the robot in every turn puts a position together
\* only from the first and the second part of one position message, the
\* result being the position the robot enqueued, and does so for every
\* second part the robot transmits, also after a message of higher
\* priority displaced a second part.
C34_PositionHeard ==
    map_length \in 1..64 =>
        /\ sender # Null => ~sender.thrown
        /\ (sender # Null /\ sender.enqueued # Null) =>
              \A i \in 1..Len(sender.enqueued[1]) : sender.enqueued[1][i] \in 1..255
        /\ heardPos # Null =>
              /\ heardOf[1].grid # Null /\ heardOf[1].part # Null
              /\ heardOf[1].grid[1].part = 1 /\ heardOf[1].part[1].part = 2
              /\ heardOf[1].grid[1].serial = heardOf[1].part[1].serial
              /\ heardPos[1] = heardOf[1].part[1].pos
        /\ (talkTurn = "sender" /\ sentOf # Null /\ sentOf[1].part = 2) =>
              /\ heardPos = Some(sentOf[1].pos)
              /\ heardOf[1].part = sentOf

\* a robot on the largest map whose second part an alert displaced in
\* turn 3 reports again in turns 4 and 5, from the last column, and is
\* heard
C34_Witness ==
    /\ map_length = 64
    /\ sender.unit = PILGRIM
    /\ sender.alert_last = Some(3)
    /\ op = "castleUpdateFromCastleTalk"
    /\ sentOf # Null /\ sentOf[1].part = 2 /\ sentOf[1].serial = 4
    /\ heardPos = Some(<<63, 0>>)

\* ---------------------------------------------------------------------
\* Properties of the strategy grids
\* ---------------------------------------------------------------------
\* the nearest coordinate on a map of side n
nearest(v, n) == IF v < 0 THEN 0 ELSE IF v > n - 1 THEN n - 1 ELSE v

\* C31: toGrid returns a cell with both indices in 0..7 for every position
\* and map size, a position off the map giving the cell of the nearest
\* position on it; markDangerous, getDanger and updateFriendly use no index
\* outside the 8x8 grids.
C31_GridInBounds ==
    gridCell # Null =>
        /\ gridCell[1] \in (0..7) \X (0..7)
        /\ gridCell[1] = toGrid(nearest(gridArgs[1], _mapSize), nearest(gridArgs[2], _mapSize),
                                _mapSize)
        /\ gridTouched \subseteq (0..7) \X (0..7)

\* markDangerous on a position beyond the far corner of the map
C31_Witness ==
    /\ op = "markDangerous"
    /\ gridArgs[1] >= _mapSize /\ gridArgs[2] < 0
    /\ _mapSize > 1
    /\ gridCell = Some(<<7, 0>>)
    /\ gridTouched = {<<0, 6>>, <<0, 7>>, <<1, 6>>, <<1, 7>>}

\* the routines that act on a radio message being scheduled
OrderingRoutines ==
    {"structureBuildMiner", "structureBuildLattice", "castleExpandAgressively",
     "castleOrderAllAttack", "militaryLeadCharge", "structureCheckCharge", "repulse",
     "structureDefend"}

\* C22: a routine that acts on a radio message being scheduled returns a
\* build or success, or records a turn or the charge state, only if its
\* call of radioSetEventMessage returned true.
C22_ActsOnlyOnScheduled ==
    [][ ( /\ op' \in OrderingRoutines
          /\ (ret' \in {"build", "true"} \/ ctl' # ctl) )
        => setReturned' = Some(TRUE) ]_vars

\* ---------------------------------------------------------------------
\* Route search properties
\* ---------------------------------------------------------------------
\* a legal move of the mover type from cell a onto cell b: squared length
\* between 1 and the speed, b inside the map and passable in the
\* occupancy map of the search
legalMove(a, b) ==
    LET d == <<b[1] - a[1], b[2] - a[2]>>
    IN /\ 1 <= radiusSq(d) /\ radiusSq(d) <= UNITS[mover].SPEED
       /\ b \in Cells(map)
       /\ b \in tvmap

\* C11: a route returned by findPath starts at the start cell, ends at one
\* of the goal cells, and every consecutive pair of cells is a legal move
\* of the mover type onto a cell inside the map that is passable in the
\* occupancy map of the search.
C11_RouteLegal ==
    (pc = "return" /\ path # Null) =>
        LET route == path[1]
        IN /\ Len(route) >= 1
           /\ route[1] = start
           /\ \E i \in 1..Len(targets) : route[Len(route)] = targets[i]
           /\ \A i \in 1..(Len(route) - 1) : legalMove(route[i], route[i + 1])

\* a route of three moves or more around an impassable cell
C11_Witness ==
    /\ pc = "return"
    /\ path # Null
    /\ Len(path[1]) >= 4
    /\ Cells(map) \ (tvmap \cup {start}) # {}

\* the cost of a move: its fuel cost times the fuel factor of the mode
\* plus the time factor of the mode
edgeCost(a, b) ==
    LET d == <<b[1] - a[1], b[2] - a[2]>>
        fuelCost == UNITS[planner].FUEL_PER_MOVE * radiusSq(d)
    IN (IF mode = NAV.ECONOMIC THEN 10 * fuelCost + 1 ELSE fuelCost + 10)

RECURSIVE routeCost(_, _)
routeCost(route, i) ==
    IF i >= Len(route) THEN 0
    ELSE edgeCost(route[i], route[i + 1]) + routeCost(route, i + 1)

least(S) == CHOOSE n \in S : \A k \in S : n <= k

\* the cheapest cost of a legal route from the start to every cell, by
\* relaxation until nothing improves (Infinity: no route)
relax(dist) ==
    [c \in Cells(map) |->
        least({dist[c]} \cup
              {dist[b] + edgeCost(b, c) :
                  b \in {e \in Cells(map) : dist[e] < Infinity /\ legalMove(e, c)}})]

RECURSIVE settle(_)
settle(dist) == LET next == relax(dist) IN IF next = dist THEN dist ELSE settle(next)

cheapest == settle([c \in Cells(map) |-> IF c = start THEN 0 ELSE Infinity])

RECURSIVE reachedFrom(_)
reachedFrom(S) ==
    LET more == S \cup {c \in Cells(map) : \E b \in S : legalMove(b, c)}
    IN IF more = S THEN S ELSE reachedFrom(more)

\* C13: findPath returns no route exactly when no goal cell can be reached
\* from the start by legal moves over passable cells; when no goal cell is
\* passable it returns no route before any cell is expanded.
C13_NoRouteIffUnreachable ==
    (pc = "return") =>
        /\ (path = Null) <=> (\A i \in 1..Len(targets) : targets[i] \notin reachedFrom({start}))
        /\ (\A i \in 1..Len(targets) : targets[i] \notin tvmap) =>
               (path = Null /\ closes = 0 /\ frontier = <<>>)

\* the search ran out of frontier although a goal cell is passable
C13_Witness ==
    /\ pc = "return"
    /\ path = Null
    /\ closes > 1
    /\ \E i \in 1..Len(targets) : targets[i] \in tvmap

\* the work left to a call: nothing once it has returned; in the loop the
\* entries of the frontier, and for every cell not closed yet the entries
\* its expansion can add and its own
variant ==
    LET perCell == Len(listPossibleMoves[mover]) + 1
    IN IF pc = "return" THEN 0
       ELSE IF pc = "loop"
            THEN 1 + Len(frontier)
                 + (Cardinality(Cells(map)) - Cardinality(closedSet)) * perCell
       ELSE 3 + Cardinality(Cells(map)) * perCell

\* C14: findPath terminates: every cell is closed at most once (the number
\* of closings is the number of closed cells), the call is always at a
\* position that has a step or has returned, every step strictly lowers
\* the natural number variant (so no call takes steps for ever), and it
\* returns with the frontier empty or a goal dequeued.
C14_Terminates ==
    /\ [](closes = Cardinality(closedSet))
    /\ [](pc \in {"call", "loop", "return"} /\ variant >= 0)
    /\ [][variant' < variant]_vars
    /\ [](pc = "return" => (path # Null \/ frontier = <<>>))

\* a call has returned leaving entries of closed cells in the frontier:
\* cells were entered into the frontier more than once
C14_Witness ==
    /\ pc = "return"
    /\ closes >= 3
    /\ \E i \in 1..Len(frontier) : frontier[i].elem \in closedSet

\* the moves of the mover from cell a that land on passable terrain, as
\* pairs of the cell reached and the cost of the move
terrainMoves(a) ==
    {<<b, totalActionCost(<<b[1] - a[1], b[2] - a[2]>>, findArgs)>> :
        b \in {c \in Cells(map) \cap passableMap :
                  \E i \in 1..Len(listPossibleMoves[mover]) :
                      listPossibleMoves[mover][i] = <<c[1] - a[1], c[2] - a[2]>>}}

\* G is the field of the least accumulated costs from the start over the
\* terrain: 0 at the start, no move lowers a cost, and every finite cost is
\* the cost of a cell one move before plus that move (moves cost more than 0)
leastCostField(G) ==
    /\ DOMAIN G = Cells(map)
    /\ G[start] = 0
    /\ \A a \in Cells(map) : G[a] < Infinity =>
           \A m \in terrainMoves(a) : G[m[1]] <= G[a] + m[2] /\ m[2] > 0
    /\ \A c \in Cells(map) \ {start} : G[c] < Infinity =>
           \E a \in Cells(map) : /\ G[a] < Infinity
                                  /\ \E m \in terrainMoves(a) : m[1] = c /\ G[c] = G[a] + m[2]
    /\ \A c \in Cells(map) : G[c] <= Infinity

\* C30: in map-building mode findPath returns, whatever the goal list and
\* the units present, the cost field of the terrain: the start cell holds 0,
\* every cell reachable from the start over passable terrain holds the least
\* accumulated move cost, and every other cell holds Infinity.
C30_MappingScores ==
    (mappingMode /\ pc = "return") => (path # Null /\ leastCostField(path[1]))

\* a score map built with a goal list given and a robot in sight, on a
\* terrain with a passable cell out of reach and a cell one move away
C30_Witness ==
    /\ mappingMode /\ pc = "return" /\ path # Null
    /\ targets # <<>>
    /\ tvmap # passableMap
    /\ \E c \in passableMap : path[1][c] = Infinity
    /\ \E c \in passableMap : path[1][c] = totalActionCost(<<1, 0>>, findArgs)

\* ---------------------------------------------------------------------
\* Navigation properties.  In a step of navigationMove the unprimed cache
\* is the cache before the call; the position, the occupancy, the fuel
\* and the clock are those of the turn (the call leaves them alone); the
\* primed targets and mode are the arguments of the call.
\* ---------------------------------------------------------------------
\* the cached route has a next step, and the tile of that step
hasNextStep == _util_path # Null /\ Len(_util_path[1]) >= 2
nextStep == _util_path[1][2]

\* one of the five reasons to search again holds before the call
stale ==
    \/ _util_path_targets = Null
    \/ _util_path_targets # Some(targets')
    \/ _util_path_mode # Some(mode')
    \/ _util_path = Null
    \/ _util_path[1][1] # me_xy
    \/ (hasNextStep /\ nextStep \notin tvmap)

\* the tile the cached route was going to enter next: its head while the
\* robot does not stand on it, else its second cell
plannedNext ==
    IF _util_path = Null THEN Null
    ELSE IF _util_path[1][1] # me_xy THEN Some(_util_path[1][1])
    ELSE IF hasNextStep THEN Some(nextStep)
    ELSE Null

\* the planned next tile has become impassable; then the call leaves a
\* cached route that differs from the old one and has that tile nowhere
avoidsBlockedTile ==
    (plannedNext # Null /\ plannedNext[1] \notin tvmap /\ plannedNext[1] # me_xy) =>
        /\ _util_path' # _util_path
        /\ _util_path' # Null =>
              \A i \in 1..Len(_util_path'[1]) : _util_path'[1][i] # plannedNext[1]

\* the call returns at once: the clock budget is low, or the robot stands
\* on a goal
lowClock == _util_frozen \/ me_time < 40
returnsAtOnce == lowClock \/ onTarget(me_xy, targets')

\* C15 as stated: navigationMove searches again exactly when the cache is
\* stale (no cached goal set, another goal set, another mode, the robot
\* not on the head of the route, the next step impassable) and otherwise
\* reuses the route without searching; when the planned next tile has
\* become impassable the cached route changes and avoids that tile.
C15_RecomputeExactlyWhenStale ==
    [][(op' = "navigationMove") =>
          /\ searched' <=> stale
          /\ (~searched') => (_util_path' = _util_path \/ (_util_path # Null /\ _util_path' = Some(Tail(_util_path[1]))))
          /\ avoidsBlockedTile]_vars

\* C15 amended: the same of every call that does not return at once for a
\* low clock budget or because the robot stands on a goal; a call that
\* returns at once neither searches nor touches the cache.
C15_RecomputeExactlyWhenStaleUnlessReturnedAtOnce ==
    [][(op' = "navigationMove") =>
          IF returnsAtOnce
          THEN /\ ~searched'
               /\ _util_path' = _util_path
               /\ _util_path_targets' = _util_path_targets
               /\ _util_path_mode' = _util_path_mode
          ELSE /\ searched' <=> stale
               /\ (~searched') => (_util_path' = _util_path \/ _util_path' = Some(Tail(_util_path[1])))
               /\ avoidsBlockedTile]_vars

\* a call has found the robot on the head of its cached route and the next
\* step of that route taken by another robot, has searched again and
\* returns a move of a route around that tile
C15_Witness ==
    /\ op = "navigationMove"
    /\ searched
    /\ navMove # Null
    /\ pathBefore # Null
    /\ Len(pathBefore[1]) >= 2
    /\ pathBefore[1][1] = me_xy
    /\ pathBefore[1][2] \notin tvmap
    /\ _util_path_targets = Some(targets)

\* C25: when the previous turn did not complete cleanly or the remaining
\* time budget is below 40, navigationMove returns no action, does not run
\* findPath and leaves the cached route, goal set and mode as they were.
C25_FailFastLeavesCache ==
    [][(op' = "navigationMove" /\ lowClock) =>
          /\ navMove' = Null
          /\ ~searched'
          /\ UNCHANGED <<_util_path, _util_path_targets, _util_path_mode>>]_vars

\* a call with a low clock budget for goals other than those of the cached
\* route, which a call with enough budget would have searched for
C25_Witness ==
    /\ op = "navigationMove"
    /\ lowClock
    /\ ~onTarget(me_xy, targets)
    /\ _util_path # Null
    /\ _util_path_targets # Null
    /\ _util_path_targets # Some(targets)
    /\ _util_path = pathBefore

\* the fuel the move from the robot's tile to cell c costs
fuelCostTo(c) ==
    UNITS[planner].FUEL_PER_MOVE * radiusSq(<<c[1] - me_xy[1], c[2] - me_xy[2]>>)

\* C16: navigationMove returns no action when the robot stands on a goal,
\* when the new search finds no route (the cached goal set is then
\* cleared), or when the fuel cost of the next step exceeds the fuel; in
\* the fuel case the cached route is not advanced, its head is still the
\* robot's position.  When it returns a step (dx, dy), the head of the
\* cached route becomes the robot's position plus (dx, dy).
C16_NoActionCases ==
    [][(op' = "navigationMove") =>
          /\ onTarget(me_xy, targets') => navMove' = Null
          /\ (searched' /\ _util_path' = Null) => (navMove' = Null /\ _util_path_targets' = Null)
          /\ (~returnsAtOnce /\ _util_path' # Null /\ Len(_util_path'[1]) >= 2
                /\ _util_path'[1][1] = me_xy /\ fuelCostTo(_util_path'[1][2]) > fuel) =>
                navMove' = Null
          /\ (~returnsAtOnce /\ _util_path' # Null /\ navMove' = Null) =>
                /\ _util_path'[1][1] = me_xy
                /\ Len(_util_path'[1]) >= 2
                /\ fuelCostTo(_util_path'[1][2]) > fuel
                /\ (~searched') => _util_path' = _util_path
          /\ navMove' # Null =>
                /\ _util_path' # Null
                /\ _util_path'[1][1] = <<me_xy[1] + navMove'[1][1], me_xy[2] + navMove'[1][2]>>
                /\ fuelCostTo(_util_path'[1][1]) <= fuel]_vars

\* a call has returned no action for want of fuel on a route it had
\* cached before, and the route still starts where the robot stands
C16_Witness ==
    /\ op = "navigationMove"
    /\ navMove = Null
    /\ ~searched
    /\ ~lowClock
    /\ _util_path # Null
    /\ _util_path[1][1] = me_xy
    /\ Len(_util_path[1]) >= 2
    /\ fuelCostTo(_util_path[1][2]) > fuel

====
